---- MODULE Spec2Model ----
(***************************************************************************)
(* A model of type-audit: the metadata registry (MetadataManagerImpl), the *)
(* collapsing change tracker (ChangeTrackerImpl) and the proxy wrapper     *)
(* (Audit / createAuditProxy).                                             *)
(*                                                                         *)
(* JavaScript values are records [type, v]: type is the ECMAScript         *)
(* language type (callable objects have type "Function"), v a token.       *)
(***************************************************************************)
EXTENDS Naturals, Sequences, FiniteSets, TLC

VARIABLES
    registry,   \* class -> the value stored under AUDIT_METADATA_KEY on its constructor
    heap,       \* object reference -> the object (class, own properties, frozen)
    handles,    \* handle -> the proxy kept under it: its target and its private tracker map
    hist,       \* per handle and field: summary of the recorded-path writes since creation/reset
    snap,       \* the array the caller keeps from its latest changes() call
    logger,     \* the logger's configuration and whether the console methods work
    last        \* the call made last and the error it raised to its caller, if any

vars == <<registry, heap, handles, hist, snap, logger, last>>

(***************************************************************************)
(* JavaScript values                                                       *)
(***************************************************************************)
Val(t, x) == [type |-> t, v |-> x]

Undefined == Val("Undefined", "undefined")
Null      == Val("Null", "null")
Str(s)    == Val("String", s)
Num(n)    == Val("Number", n)
NaN       == Num("NaN")
PosZero   == Num("+0")
NegZero   == Num("-0")
Bool(b)   == Val("Boolean", b)
Fn(n)     == Val("Function", n)
Ref(r)    == Val("Object", r)

\* String.prototype.toLowerCase, letter by letter, over the letters A to Z
UpperCaseLetters == "ABCDEFGHIJKLMNOPQRSTUVWXYZ"
LowerCaseLetters == "abcdefghijklmnopqrstuvwxyz"

\* The lower-case letter of the one-character string c, or c when it is no
\* upper-case letter
LowerChar(c) ==
    IF \E i \in 1..Len(UpperCaseLetters) : SubSeq(UpperCaseLetters, i, i) = c
    THEN LET i == CHOOSE j \in 1..Len(UpperCaseLetters) : SubSeq(UpperCaseLetters, j, j) = c
         IN  SubSeq(LowerCaseLetters, i, i)
    ELSE c

RECURSIVE LowerString(_)
LowerString(s) ==
    IF Len(s) = 0 THEN ""
    ELSE LowerChar(SubSeq(s, 1, 1)) \o LowerString(SubSeq(s, 2, Len(s)))

\* x.toLowerCase() for a string x
ToLowerCase(x) == Str(LowerString(x.v))

\* A property slot that holds no own property (not a JavaScript value).
Absent == Val("Absent", "absent")

\* typeof x
TypeOf(x) ==
    CASE x.type = "Undefined" -> "undefined"
      [] x.type = "Null"      -> "object"
      [] x.type = "Boolean"   -> "boolean"
      [] x.type = "Number"    -> "number"
      [] x.type = "String"    -> "string"
      [] x.type = "Symbol"    -> "symbol"
      [] x.type = "Function"  -> "function"
      [] x.type = "BoundFunction" -> "function"
      [] OTHER                -> "object"

\* ToBoolean(x): the truthiness that !x negates
ToBoolean(x) ==
    CASE x.type = "Undefined" -> FALSE
      [] x.type = "Null"      -> FALSE
      [] x.type = "Boolean"   -> x.v = "true"
      [] x.type = "Number"    -> x.v \notin {"+0", "-0", "NaN"}
      [] x.type = "String"    -> x.v # ""
      [] OTHER                -> TRUE

\* Numeric equality of two Number tokens (IEEE ==): NaN equals nothing, the zeros are equal
NumberEquals(a, b) ==
    /\ a # "NaN"
    /\ b # "NaN"
    /\ \/ a = b
       \/ {a, b} = {"+0", "-0"}

\* x === y, the comparison the mutant of Object.is uses
StrictEquals(x, y) ==
    IF x.type # y.type THEN FALSE
    ELSE IF x.type = "Number" THEN NumberEquals(x.v, y.v)
    ELSE x.v = y.v

\* A comparison by === in place of Object.is
ObjectIs_StrictEquals(x, y) == StrictEquals(x, y)

\* A comparison by SameValueZero (the zeros equal) in place of Object.is
ObjectIs_SameValueZero(x, y) ==
    IF x.type # y.type THEN FALSE
    ELSE IF x.type = "Number"
         THEN (x.v = "NaN" /\ y.v = "NaN") \/ NumberEquals(x.v, y.v)
    ELSE x.v = y.v

\* Object.is(x, y): SameValue
ObjectIs(x, y) ==
    IF x.type # y.type THEN FALSE
    ELSE IF x.type = "Number"
         THEN IF x.v = "NaN" /\ y.v = "NaN" THEN TRUE
              ELSE IF x.v = "+0" /\ y.v = "-0" THEN FALSE
              ELSE IF x.v = "-0" /\ y.v = "+0" THEN FALSE
              ELSE NumberEquals(x.v, y.v)
    ELSE x.v = y.v

(***************************************************************************)
(* Classes, objects and property keys                                      *)
(***************************************************************************)
\* "none" stands for a missing constructor (Object.create(null)) and for the
\* end of a constructor's prototype chain.
NoClass == "none"

\* The constructor a class's constructor inherits its static members from.
Parent(c) == IF c = "Derived" THEN "Base" ELSE NoClass

AllClasses == {"User", "Base", "Derived", "Object", "Array"}

\* The one property key that is a symbol and not a string
SymbolKey == "Symbol(test1)"

\* Every property key the model writes; "" is a legal JavaScript key.
AllFields == {"name", "secret", "", "changes", "resetAudit", SymbolKey}

\* typeof prop of a property key
KeyType(prop) == IF prop = SymbolKey THEN "symbol" ELSE "string"

NoProps == [f \in AllFields |-> Absent]

\* An object: its class, its own data properties, whether Object.freeze or
\* Object.seal was applied to it, and its non-writable properties
NotAllocated == [alloc |-> FALSE, cls |-> NoClass, props |-> NoProps, frozen |-> FALSE,
                 sealed |-> FALSE, readonly |-> {}]

\* Object.keys(target): the own enumerable string keys
ObjectKeys(obj) == {f \in DOMAIN obj.props : KeyType(f) = "string" /\ obj.props[f] # Absent}

\* Reflect.get(obj, prop, receiver) on a data property
ReflectGet(obj, prop) ==
    IF obj.props[prop] = Absent THEN Undefined ELSE obj.props[prop]

\* The assignment obj[prop] = ... is refused: the object is frozen, the property
\* is non-writable, or the property is new and the object is sealed or frozen
AssignmentRefused(obj, prop) ==
    \/ obj.frozen
    \/ prop \in obj.readonly
    \/ obj.sealed /\ obj.props[prop] = Absent

\* Reflect.set(obj, prop, value, receiver) on a data property: false when refused
ReflectSet(obj, prop, value) ==
    IF AssignmentRefused(obj, prop)
    THEN [obj |-> obj, success |-> FALSE]
    ELSE [obj |-> [obj EXCEPT !.props[prop] = value], success |-> TRUE]

(***************************************************************************)
(* Metadata registry (MetadataManagerImpl)                                 *)
(***************************************************************************)
\* What a constructor holds under AUDIT_METADATA_KEY. shape "absent": no own
\* property; "meta": an object with two Sets and a boolean; other shapes are
\* corrupted values.
StoredMeta(tf, ig, cla) ==
    [shape |-> "meta", trackedFields |-> tf, ignoredFields |-> ig, classLevelAudit |-> cla]

NoRecord == [shape |-> "absent", trackedFields |-> {}, ignoredFields |-> {},
             classLevelAudit |-> FALSE]

\* A default that enables class-level audit
DEFAULT_METADATA_ClassLevel == StoredMeta({}, {}, TRUE)

DEFAULT_METADATA == StoredMeta({}, {}, FALSE)

\* The class, along target's prototype chain, whose own property target[KEY] reads
RECURSIVE MetaOwner(_, _)
MetaOwner(reg, c) ==
    IF c = NoClass THEN NoClass
    ELSE IF reg[c].shape # "absent" THEN c
    ELSE MetaOwner(reg, Parent(c))

\* (target as any)[AUDIT_METADATA_KEY]
ReadMetaKey(reg, c) ==
    LET o == MetaOwner(reg, c) IN IF o = NoClass THEN NoRecord ELSE reg[o]

IsValidMetadata(m) == m.shape = "meta"

\* A getMetadata that never sees a stored record
GetMetadata_AlwaysDefault(reg, c) == DEFAULT_METADATA

\* getMetadata(target): the stored record, or the default when missing or invalid
GetMetadata(reg, c) ==
    LET metadata == ReadMetaKey(reg, c) IN
    IF metadata.shape = "absent" THEN DEFAULT_METADATA
    ELSE IF ~IsValidMetadata(metadata) THEN DEFAULT_METADATA
    ELSE metadata

\* A getMetadata that stores the default it answers from on a class that
\* reads no record
GetMetadataEffect_StoresDefault(reg, c) ==
    IF c # NoClass /\ ReadMetaKey(reg, c).shape = "absent"
    THEN [reg EXCEPT ![c] = DEFAULT_METADATA]
    ELSE reg

\* The registry after getMetadata(target): it returns a copy of the default or
\* the stored record and assigns nothing to the constructor
GetMetadataEffect(reg, c) == reg

\* A getOrCreateMetadata that hands out whatever is stored, valid or not
GetOrCreateMetadata_KeepsInvalid(reg, c) ==
    LET metadata == ReadMetaKey(reg, c) IN
    IF metadata.shape = "absent"
    THEN [reg |-> [reg EXCEPT ![c] = StoredMeta({}, {}, FALSE)], owner |-> c]
    ELSE [reg |-> reg, owner |-> MetaOwner(reg, c)]

\* A getOrCreateMetadata that stores a fresh record whatever it read, as a
\* creation racing with another one would
GetOrCreateMetadata_AlwaysCreates(reg, c) ==
    [reg |-> [reg EXCEPT ![c] = StoredMeta({}, {}, FALSE)], owner |-> c]

\* A getOrCreateMetadata that looks at the constructor's own property only and
\* gives every class that has none a record of its own
GetOrCreateMetadata_OwnRecord(reg, c) ==
    IF reg[c].shape = "absent" \/ ~IsValidMetadata(reg[c])
    THEN [reg |-> [reg EXCEPT ![c] = StoredMeta({}, {}, FALSE)], owner |-> c]
    ELSE [reg |-> reg, owner |-> c]

\* getOrCreateMetadata(target): the registry afterwards and the class whose
\* stored record the caller goes on to mutate
GetOrCreateMetadata(reg, c) ==
    LET metadata == ReadMetaKey(reg, c) IN
    IF metadata.shape = "absent" \/ ~IsValidMetadata(metadata)
    THEN [reg |-> [reg EXCEPT ![c] = StoredMeta({}, {}, FALSE)], owner |-> c]
    ELSE [reg |-> reg, owner |-> MetaOwner(reg, c)]

\* getTrackedFields without the ignore check on the explicitly tracked fields
GetTrackedFields_IgnoreUnchecked(reg, obj) ==
    IF obj.cls = NoClass THEN {}
    ELSE LET metadata == GetMetadata(reg, obj.cls) IN
         (IF metadata.classLevelAudit
          THEN {f \in ObjectKeys(obj) : f \notin metadata.ignoredFields}
          ELSE {})
         \cup metadata.trackedFields

\* getTrackedFields that tracks every own field whatever the configuration
GetTrackedFields_AllOwnFields(reg, obj) ==
    IF obj.cls = NoClass THEN {}
    ELSE LET metadata == GetMetadata(reg, obj.cls) IN
         {f \in ObjectKeys(obj) : f \notin metadata.ignoredFields}
         \cup {f \in metadata.trackedFields : f \notin metadata.ignoredFields}

\* getTrackedFields that, under class-level audit, collects the own fields
\* without looking at the ignored ones
GetTrackedFields_OwnFieldsUnchecked(reg, obj) ==
    IF obj.cls = NoClass THEN {}
    ELSE LET metadata == GetMetadata(reg, obj.cls) IN
         (IF metadata.classLevelAudit THEN ObjectKeys(obj) ELSE {})
         \cup {f \in metadata.trackedFields : f \notin metadata.ignoredFields}

\* getTrackedFields(target)
GetTrackedFields(reg, obj) ==
    IF obj.cls = NoClass THEN {}
    ELSE LET metadata == GetMetadata(reg, obj.cls) IN
         (IF metadata.classLevelAudit
          THEN {f \in ObjectKeys(obj) : f \notin metadata.ignoredFields}
          ELSE {})
         \cup {f \in metadata.trackedFields : f \notin metadata.ignoredFields}

\* isFieldTracked that consults only the explicitly tracked fields
IsFieldTracked_ExplicitOnly(reg, obj, field) ==
    LET metadata == GetMetadata(reg, obj.cls) IN
    field \in metadata.trackedFields /\ field \notin metadata.ignoredFields

\* isFieldTracked(target, field): false for a field that is not a string
IsFieldTracked(reg, obj, field) ==
    KeyType(field) = "string" /\ field \in GetTrackedFields(reg, obj)

\* A setFieldTracking whose true flips the field's membership
SetFieldTrackingOp_Flips(reg, c, field, track) ==
    IF field = "" THEN reg
    ELSE LET g == GetOrCreateMetadata(reg, c) IN
         [g.reg EXCEPT ![g.owner].trackedFields =
             IF track /\ field \notin @ THEN @ \cup {field} ELSE @ \ {field}]

\* setFieldTracking(target, field, track); target is a class, an invalid field is a no-op
SetFieldTrackingOp(reg, c, field, track) ==
    IF field = "" \/ KeyType(field) # "string" THEN reg
    ELSE LET g == GetOrCreateMetadata(reg, c) IN
         [g.reg EXCEPT ![g.owner].trackedFields =
             IF track THEN @ \cup {field} ELSE @ \ {field}]

\* setFieldIgnored(target, field, ignored)
SetFieldIgnoredOp(reg, c, field, ignored) ==
    IF field = "" \/ KeyType(field) # "string" THEN reg
    ELSE LET g == GetOrCreateMetadata(reg, c) IN
         [g.reg EXCEPT ![g.owner].ignoredFields =
             IF ignored THEN @ \cup {field} ELSE @ \ {field}]

\* setClassLevelAudit(target, enabled)
SetClassLevelAuditOp(reg, c, enabled) ==
    LET g == GetOrCreateMetadata(reg, c) IN
    [g.reg EXCEPT ![g.owner].classLevelAudit = enabled]

\* !target || typeof target !== 'function'
IsInvalidClassRef(target) == ~ToBoolean(target) \/ TypeOf(target) # "function"

\* typeof field !== 'string' || field.length === 0
IsInvalidFieldName(field) == TypeOf(field) # "string" \/ field.v = ""

\* A setFieldTracking that turns a field that is not a string into its string
\* form before it looks at it
SetFieldTrackingArgs_Coerces(reg, target, field, track) ==
    IF IsInvalidClassRef(target) THEN reg
    ELSE SetFieldTrackingOp(reg, target.v, field.v, track)

\* setFieldTracking(target, field, track) on any JavaScript values
SetFieldTrackingArgs(reg, target, field, track) ==
    IF IsInvalidClassRef(target) THEN reg
    ELSE IF IsInvalidFieldName(field) THEN reg
    ELSE SetFieldTrackingOp(reg, target.v, field.v, track)

\* setFieldIgnored(target, field, ignored) on any JavaScript values
SetFieldIgnoredArgs(reg, target, field, ignored) ==
    IF IsInvalidClassRef(target) THEN reg
    ELSE IF IsInvalidFieldName(field) THEN reg
    ELSE SetFieldIgnoredOp(reg, target.v, field.v, ignored)

\* setClassLevelAudit(target, enabled) on any JavaScript value
SetClassLevelAuditArgs(reg, target, enabled) ==
    IF IsInvalidClassRef(target) THEN reg
    ELSE SetClassLevelAuditOp(reg, target.v, enabled)

(***************************************************************************)
(* Change tracker (ChangeTrackerImpl): a Map from field name to record      *)
(***************************************************************************)
\* new ChangeRecordImpl(field, oldValue, newValue): Object.freeze(this)
ChangeRecordImpl(field, oldValue, newValue) ==
    [field |-> field, oldValue |-> oldValue, newValue |-> newValue, frozen |-> TRUE]

\* Map.prototype.has
MapHas(m, k) == \E i \in 1..Len(m) : m[i].key = k

\* Map.prototype.get of a key the map has
MapGet(m, k) == m[CHOOSE i \in 1..Len(m) : m[i].key = k].value

\* A Map whose set moves the entry of a key it already has to the end
MapSet_Reinserts(m, k, val) ==
    Append(SelectSeq(m, LAMBDA e : e.key # k), [key |-> k, value |-> val])

\* Map.prototype.set: replaces the value in place, or appends a new entry
MapSet(m, k, val) ==
    IF MapHas(m, k)
    THEN [i \in 1..Len(m) |-> IF m[i].key = k THEN [key |-> k, value |-> val] ELSE m[i]]
    ELSE Append(m, [key |-> k, value |-> val])

\* trackChange that overwrites an existing record with the caller's oldValue
TrackChange_NoCollapse(changes, field, oldValue, newValue) ==
    IF field = "" THEN changes
    ELSE MapSet(changes, field, ChangeRecordImpl(field, oldValue, newValue))

\* trackChange that drops the record of a field whose new value is the
\* record's oldValue
TrackChange_DropsOnReturn(changes, field, oldValue, newValue) ==
    IF field = "" THEN changes
    ELSE IF MapHas(changes, field)
         THEN IF MapGet(changes, field).oldValue = newValue
              THEN SelectSeq(changes, LAMBDA e : e.key # field)
              ELSE MapSet(changes, field,
                          ChangeRecordImpl(field, MapGet(changes, field).oldValue, newValue))
         ELSE MapSet(changes, field, ChangeRecordImpl(field, oldValue, newValue))

\* trackChange that leaves the record of a field that has one as it is
TrackChange_KeepsRecord(changes, field, oldValue, newValue) ==
    IF field = "" THEN changes
    ELSE IF MapHas(changes, field)
         THEN changes
         ELSE MapSet(changes, field, ChangeRecordImpl(field, oldValue, newValue))

\* trackChange(field, oldValue, newValue)
TrackChange(changes, field, oldValue, newValue) ==
    IF field = "" THEN changes
    ELSE IF MapHas(changes, field)
         THEN MapSet(changes, field,
                     ChangeRecordImpl(field, MapGet(changes, field).oldValue, newValue))
         ELSE MapSet(changes, field, ChangeRecordImpl(field, oldValue, newValue))

\* field.length === 0 for a primitive field: only a string has a length
HasZeroLength(field) == field.type = "String" /\ field.v = ""

\* trackChange(field, oldValue, newValue) on any primitive value for field: the
\* guard is !field || field.length === 0, and a value that passes it is itself
\* the key of the Map and the field of the record, so that the number 42 and
\* the string "42" make two entries
TrackChangeArgs(changes, field, oldValue, newValue) ==
    IF ~ToBoolean(field) \/ HasZeroLength(field) THEN changes
    ELSE IF MapHas(changes, field)
         THEN MapSet(changes, field,
                     ChangeRecordImpl(field, MapGet(changes, field).oldValue, newValue))
         ELSE MapSet(changes, field, ChangeRecordImpl(field, oldValue, newValue))

\* getChanges(): Array.from(this.changes.values())
GetChanges(changes) == [i \in 1..Len(changes) |-> changes[i].value]

\* A getChanges that hands out the array the tracker itself keeps
GetChangesArray_Internal(changes) == [fresh |-> FALSE, items |-> GetChanges(changes)]

\* The array object getChanges() returns: Array.from makes a new array of the
\* record objects the Map holds
GetChangesArray(changes) == [fresh |-> TRUE, items |-> GetChanges(changes)]

\* A reset that clears nothing
Reset_KeepsRecords(changes) == changes

\* A reset that forgets every entry but the oldest
Reset_KeepsOldest(changes) == IF changes = <<>> THEN <<>> ELSE <<Head(changes)>>

\* reset(): this.changes.clear()
Reset(changes) == <<>>

\* A hasChanges that answers true only from the second record on
HasChanges_MoreThanOne(changes) == Len(changes) > 1

\* hasChanges(): this.changes.size > 0
HasChanges(changes) == Len(changes) > 0

(***************************************************************************)
(* Proxy wrapper (Audit, createAuditProxy)                                 *)
(***************************************************************************)
InvalidTargetError == "Audit target must be a non-null object"
ProxyTargetError   == "Proxy target must be a non-null object"
TypeErrorRaised    == "TypeError"
NoError            == "none"
\* What a console method that throws raises
SinkErrorRaised    == "console failure"

\* A guard of Audit that forgets the null check
IsInvalidTarget_TypeofOnly(target) == TypeOf(target) # "object"

\* The guard of Audit: !target || typeof target !== 'object'
IsInvalidTarget(target) == ~ToBoolean(target) \/ TypeOf(target) # "object"

\* The guard of createAuditProxy: !target || typeof target !== 'object'
IsInvalidProxyTarget(target) == ~ToBoolean(target) \/ TypeOf(target) # "object"

\* The functions the get trap returns for the reserved names
ChangesAccessor(h)    == Val("BoundFunction", "tracker.getChanges of " \o h)
ResetAuditAccessor(h) == Val("BoundFunction", "tracker.reset of " \o h)

\* value.bind(obj)
Bind(value) == Val("BoundFunction", value.v)

\* A get trap that hands a method out unbound: called on the wrapper, it runs
\* with the wrapper as this
MethodThis_Receiver(h, t) == Val("Proxy", h)

\* The this a method read through handle h of target t runs with: the get trap
\* returns value.bind(obj), so the target whatever the method is called on
MethodThis(h, t) == Ref(t)

\* A get trap that looks at the target first and answers the names changes and
\* resetAudit itself only when the target has no such member
ProxyGet_TargetFirst(obj, h, prop) ==
    LET value == ReflectGet(obj, prop) IN
    IF value # Undefined
    THEN IF value.type \in {"Function", "BoundFunction"} THEN Bind(value) ELSE value
    ELSE IF prop = "changes" THEN ChangesAccessor(h)
    ELSE IF prop = "resetAudit" THEN ResetAuditAccessor(h)
    ELSE value

\* A set trap that calls Reflect.set without the receiver: the setter runs
\* with the target as this
SetterThis_Target(h, t) == Ref(t)

\* The this a setter of the class runs with when its accessor is written
\* through handle h of target t: the set trap passes the receiver, the proxy,
\* to Reflect.set
SetterThis(h, t) == Val("Proxy", h)

\* What a read through the proxy yields when it raises TypeError (not a
\* JavaScript value)
ReadTypeError == Val("Throw", "TypeError")

\* prop is an own data property of obj that is neither writable nor
\* configurable: any own property of a frozen object, a non-writable one of a
\* sealed object
NonWritableNonConfigurable(obj, prop) ==
    /\ obj.props[prop] # Absent
    /\ obj.frozen \/ (obj.sealed /\ prop \in obj.readonly)

\* The get trap: what the handler's get answers for prop on handle h of obj
GetTrap(obj, h, prop) ==
    IF prop = "changes" THEN ChangesAccessor(h)
    ELSE IF prop = "resetAudit" THEN ResetAuditAccessor(h)
    ELSE LET value == ReflectGet(obj, prop) IN
         IF value.type \in {"Function", "BoundFunction"} THEN Bind(value) ELSE value

\* The get trap's answer is not the value obj holds for prop: an accessor of
\* the tracker or a newly bound function is a new object
TrapAnswerDiffers(obj, h, prop) ==
    \/ prop \in {"changes", "resetAudit"}
    \/ ReflectGet(obj, prop).type \in {"Function", "BoundFunction"}
    \/ ~ObjectIs(GetTrap(obj, h, prop), ReflectGet(obj, prop))

\* Reading prop through handle h of obj, the proxy made by new Proxy(target,
\* {get, set}): the trap's answer, or TypeError when the answer is not the
\* value of a non-writable, non-configurable own data property of the target
ProxyGet(obj, h, prop) ==
    IF NonWritableNonConfigurable(obj, prop) /\ TrapAnswerDiffers(obj, h, prop)
    THEN ReadTypeError
    ELSE GetTrap(obj, h, prop)

\* A set trap out of which a failed registry lookup escapes: it gives up when the
\* target has no constructor or its class holds no valid record
ProxySet_FailsWithoutMetadata(reg, obj, changes, prop, value) ==
    IF obj.cls = NoClass \/ ~IsValidMetadata(ReadMetaKey(reg, obj.cls))
    THEN [obj |-> obj, changes |-> changes, success |-> FALSE]
    ELSE LET oldValue == ReflectGet(obj, prop)
             r == ReflectSet(obj, prop, value)
         IN  [obj |-> r.obj,
              changes |-> IF /\ IsFieldTracked(reg, obj, prop)
                             /\ r.success
                             /\ ~ObjectIs(oldValue, value)
                          THEN TrackChange(changes, prop, oldValue, value)
                          ELSE changes,
              success |-> r.success]

\* A set trap that records a change the target refused
ProxySet_RecordsRefused(reg, obj, changes, prop, value) ==
    LET oldValue == ReflectGet(obj, prop)
        r == ReflectSet(obj, prop, value)
    IN  [obj |-> r.obj,
         changes |-> IF IsFieldTracked(reg, obj, prop) /\ ~ObjectIs(oldValue, value)
                     THEN TrackChange(changes, prop, oldValue, value)
                     ELSE changes,
         success |-> r.success]

\* A set trap that reads oldValue only after the assignment
ProxySet_OldAfterSet(reg, obj, changes, prop, value) ==
    LET r == ReflectSet(obj, prop, value)
        oldValue == ReflectGet(r.obj, prop)
    IN  [obj |-> r.obj,
         changes |-> IF IsFieldTracked(reg, obj, prop) /\ r.success /\ ~ObjectIs(oldValue, value)
                     THEN TrackChange(changes, prop, oldValue, value)
                     ELSE changes,
         success |-> r.success]

\* A set trap that assigns only tracked fields
ProxySet_DropsUntracked(reg, obj, changes, prop, value) ==
    IF IsFieldTracked(reg, obj, prop)
    THEN LET oldValue == ReflectGet(obj, prop)
             r == ReflectSet(obj, prop, value)
         IN  [obj |-> r.obj,
              changes |-> IF r.success /\ ~ObjectIs(oldValue, value)
                          THEN TrackChange(changes, prop, oldValue, value)
                          ELSE changes,
              success |-> r.success]
    ELSE [obj |-> obj, changes |-> changes, success |-> TRUE]

\* A set trap that, under class-level audit, takes every own key of the
\* target for a tracked field, symbols included
ProxySet_AnyOwnKey(reg, obj, changes, prop, value) ==
    IF \/ IsFieldTracked(reg, obj, prop)
       \/ /\ obj.cls # NoClass
          /\ GetMetadata(reg, obj.cls).classLevelAudit
          /\ obj.props[prop] # Absent
          /\ prop \notin GetMetadata(reg, obj.cls).ignoredFields
    THEN LET oldValue == ReflectGet(obj, prop)
             r == ReflectSet(obj, prop, value)
         IN  [obj |-> r.obj,
              changes |-> IF r.success /\ ~ObjectIs(oldValue, value)
                          THEN TrackChange(changes, prop, oldValue, value)
                          ELSE changes,
              success |-> r.success]
    ELSE LET r == ReflectSet(obj, prop, value)
         IN  [obj |-> r.obj, changes |-> changes, success |-> r.success]

\* A set trap that asks isFieldTracked only after the assignment, when a field
\* the write created is already an own field of the target
ProxySet_ChecksAfterSet(reg, obj, changes, prop, value) ==
    LET oldValue == ReflectGet(obj, prop)
        r == ReflectSet(obj, prop, value)
    IN  [obj |-> r.obj,
         changes |-> IF /\ KeyType(prop) = "string"
                        /\ IsFieldTracked(reg, r.obj, prop)
                        /\ r.success
                        /\ ~ObjectIs(oldValue, value)
                     THEN TrackChange(changes, prop, oldValue, value)
                     ELSE changes,
         success |-> r.success]

\* A set trap that, on a write to a field that is not tracked, forgets the
\* record the field has
ProxySet_ForgetsUntracked(reg, obj, changes, prop, value) ==
    IF KeyType(prop) = "string" /\ IsFieldTracked(reg, obj, prop)
    THEN LET oldValue == ReflectGet(obj, prop)
             r == ReflectSet(obj, prop, value)
         IN  [obj |-> r.obj,
              changes |-> IF r.success /\ ~ObjectIs(oldValue, value)
                          THEN TrackChange(changes, prop, oldValue, value)
                          ELSE changes,
              success |-> r.success]
    ELSE LET r == ReflectSet(obj, prop, value)
         IN  [obj |-> r.obj,
              changes |-> SelectSeq(changes, LAMBDA e : e.key # prop),
              success |-> r.success]

\* The set trap: the target and the tracker map afterwards, and the trap's result
ProxySet(reg, obj, changes, prop, value) ==
    IF KeyType(prop) = "string" /\ IsFieldTracked(reg, obj, prop)
    THEN LET oldValue == ReflectGet(obj, prop)
             r == ReflectSet(obj, prop, value)
         IN  [obj |-> r.obj,
              changes |-> IF r.success /\ ~ObjectIs(oldValue, value)
                          THEN TrackChange(changes, prop, oldValue, value)
                          ELSE changes,
              success |-> r.success]
    ELSE LET r == ReflectSet(obj, prop, value)
         IN  [obj |-> r.obj, changes |-> changes, success |-> r.success]

(***************************************************************************)
(* Write history per handle and field, kept for the statements below: the  *)
(* number (0, 1, 2 = two or more) of successful value-changing writes made *)
(* through the handle while the field was tracked, counted since the       *)
(* handle was created or last reset, with the value before the first and   *)
(* the value of the last of them.                                          *)
(***************************************************************************)
NoHistory == [n |-> 0, first |-> Undefined, last |-> Undefined]

\* The configuration a class reads: the valid record it stores or inherits
\* along its constructor's prototype chain, or the empty one
ConfigOf(reg, c) ==
    IF c \in AllClasses /\ ReadMetaKey(reg, c).shape = "meta"
    THEN ReadMetaKey(reg, c)
    ELSE StoredMeta({}, {}, FALSE)

\* The registry's contract for "field f of obj is tracked": f is not ignored, and
\* is marked tracked or is an own enumerable field under class-level audit
TrackedByContract(reg, obj, f) ==
    LET m == ConfigOf(reg, obj.cls) IN
    /\ KeyType(f) = "string"
    /\ f \notin m.ignoredFields
    /\ \/ f \in m.trackedFields
       \/ m.classLevelAudit /\ obj.props[f] # Absent

FreshHistory == [f \in AllFields |-> NoHistory]

NoteWrite(hs, f, oldValue, value) ==
    [hs EXCEPT ![f] = [n     |-> IF hs[f].n = 0 THEN 1 ELSE 2,
                       first |-> IF hs[f].n = 0 THEN oldValue ELSE hs[f].first,
                       last  |-> value]]

(***************************************************************************)
(* Diagnostic logger (AuditLogger)                                         *)
(***************************************************************************)
LogLevels == {"ERROR", "WARN", "DEBUG"}

DEFAULT_CONFIG == [enabled |-> FALSE, level |-> "ERROR"]

\* levelPriority
LevelPriority(level) ==
    CASE level = "ERROR" -> 3
      [] level = "WARN"  -> 2
      [] level = "DEBUG" -> 1

\* shouldLog(level)
ShouldLog(config, level) == LevelPriority(level) >= LevelPriority(config.level)

\* A log without the try/catch around the console call: what the console
\* method raises, the caller gets
Log_Propagates(lg, level) ==
    IF ~lg.config.enabled \/ ~ShouldLog(lg.config, level) THEN "silent"
    ELSE IF lg.console = "throws" THEN "raised"
    ELSE "written"

\* log(level, message, error, context): what becomes of the message; its body
\* is in a try/catch that swallows what the console method raises
Log(lg, level) ==
    IF ~lg.config.enabled \/ ~ShouldLog(lg.config, level) THEN "silent"
    ELSE IF lg.console = "throws" THEN "swallowed"
    ELSE "written"

\* One of the diagnostics an operation emits, at the given levels, comes back
\* to it as an exception
Propagates(lg, levels) == \E level \in levels : Log(lg, level) = "raised"

(***************************************************************************)
(* Initial state and actions                                               *)
(***************************************************************************)
AllRefs    == {"o1", "o2"}
AllHandles == {"h1", "h2"}

NoHandle == [alloc |-> FALSE, target |-> "none", changes |-> <<>>]

\* No array is kept
NoSnapshot == [taken |-> FALSE, h |-> "none", fresh |-> TRUE, items |-> <<>>]

\* The kept array after the tracker of h came to hold changes: a new array is
\* untouched, the tracker's own array follows the tracker
Aliased(sn, h, changes) ==
    IF sn.taken /\ ~sn.fresh /\ sn.h = h
    THEN [sn EXCEPT !.items = GetChanges(changes)]
    ELSE sn

\* The tracker of h after the caller changed the kept array to items: a new array
\* is the caller's own, the tracker's own array is the tracker's state
Backing(sn, h, changes, items) ==
    IF sn.taken /\ ~sn.fresh /\ sn.h = h
    THEN [i \in 1..Len(items) |-> [key |-> items[i].field, value |-> items[i]]]
    ELSE changes

\* The call made last: the handle it went through, for a write the property, the
\* value written and the value read before it, for a reset the number of
\* records the tracker held, and the error the call raised
LastCall(op, h, prop, value, old, had, e) ==
    [op |-> op, h |-> h, prop |-> prop, value |-> value, old |-> old, had |-> had, err |-> e,
     flag |-> FALSE]

\* A configuration call made last: its name, the class reference and the field
\* it was given, and its boolean argument
LastConfig(name, target, field, b) ==
    [LastCall("call", "none", name, field, target, 0, NoError) EXCEPT !.flag = b]

Last(op, h, e) == LastCall(op, h, "none", Undefined, Undefined, 0, e)

Init ==
    /\ registry = [c \in AllClasses |-> NoRecord]
    /\ heap = [r \in AllRefs |-> NotAllocated]
    /\ handles = [h \in AllHandles |-> NoHandle]
    /\ hist = [h \in AllHandles |-> FreshHistory]
    /\ snap = NoSnapshot
    /\ logger = [config |-> DEFAULT_CONFIG, console |-> "works"]
    /\ last = Last("init", "none", NoError)

\* User code creates an object: new C(), an object or array literal, Object.create(null)
Construct(r, cls, props, frozen) ==
    /\ ~heap[r].alloc
    /\ heap' = [heap EXCEPT ![r] = [alloc |-> TRUE, cls |-> cls, props |-> props,
                                    frozen |-> frozen, sealed |-> FALSE, readonly |-> {}]]
    /\ last' = Last("construct", "none", NoError)
    /\ UNCHANGED <<registry, handles, hist, snap, logger>>

\* A factory that keeps one tracker per target: a second handle on a target
\* starts with what the first one holds
NewTracker_PerTarget(hs, t) ==
    IF \E k \in AllHandles : hs[k].alloc /\ hs[k].target = t
    THEN hs[CHOOSE k \in AllHandles : hs[k].alloc /\ hs[k].target = t].changes
    ELSE <<>>

\* const tracker = new ChangeTrackerImpl(): the tracker of a new handle on
\* target t, whatever handles hs exist
NewTracker(hs, t) == <<>>

\* Audit(target), the proxy it returns being kept as handle h
AuditCall(target, h) ==
    IF IsInvalidTarget(target)
    THEN /\ last' = Last("Audit", "none", InvalidTargetError)
         /\ UNCHANGED <<registry, heap, handles, hist, snap, logger>>
    ELSE IF IsInvalidProxyTarget(target)
    THEN /\ last' = Last("Audit", "none", ProxyTargetError)
         /\ UNCHANGED <<registry, heap, handles, hist, snap, logger>>
    ELSE /\ target.v \in AllRefs
         /\ heap[target.v].alloc
         /\ ~handles[h].alloc
         /\ handles' = [handles EXCEPT ![h] =
                           [alloc |-> TRUE, target |-> target.v,
                            changes |-> NewTracker(handles, target.v)]]
         /\ hist' = [hist EXCEPT ![h] = FreshHistory]
         /\ last' = Last("Audit", h, NoError)
         /\ UNCHANGED <<registry, heap, snap, logger>>

\* wrapped[prop] = value
ProxyWrite(h, prop, value) ==
    /\ handles[h].alloc
    /\ LET t   == handles[h].target
           obj == heap[t]
           r   == ProxySet(registry, obj, handles[h].changes, prop, value)
           old == ReflectGet(obj, prop)
       IN  /\ heap' = [heap EXCEPT ![t] = r.obj]
           /\ handles' = [handles EXCEPT ![h].changes = r.changes]
           /\ snap' = Aliased(snap, h, r.changes)
           /\ last' = LastCall("write", h, prop, value, old, 0,
                                IF r.success THEN NoError ELSE TypeErrorRaised)
           /\ registry' = GetMetadataEffect(registry, obj.cls)
    /\ UNCHANGED logger

\* The write history after wrapped[prop] = value, kept for the fields in TF
Traced(TF, h, prop, value) ==
    LET obj == heap[handles[h].target]
        old == ReflectGet(obj, prop)
    IN  hist' = IF /\ prop \in TF
                   /\ TrackedByContract(registry, obj, prop)
                   /\ ~AssignmentRefused(obj, prop)
                   /\ old # value
                THEN [hist EXCEPT ![h] = NoteWrite(@, prop, old, value)]
                ELSE hist

\* wrapped.resetAudit()
ResetAudit(h) ==
    /\ handles[h].alloc
    /\ IF ProxyGet(heap[handles[h].target], h, "resetAudit") = ReadTypeError
       THEN /\ last' = LastCall("resetAudit", h, "none", Undefined, Undefined,
                                 Len(handles[h].changes), TypeErrorRaised)
            /\ UNCHANGED <<handles, snap, hist>>
       ELSE /\ handles' = [handles EXCEPT ![h].changes = Reset(@)]
            /\ snap' = Aliased(snap, h, Reset(handles[h].changes))
            /\ hist' = [hist EXCEPT ![h] = FreshHistory]
            /\ last' = LastCall("resetAudit", h, "none", Undefined, Undefined,
                                 Len(handles[h].changes), NoError)
    /\ UNCHANGED <<registry, heap, logger>>

\* metadataManager.getTrackedFields(target) on object r; last keeps the target
\* in old and the size of the set returned in had
GetTrackedFieldsCall(r) ==
    /\ heap[r].alloc
    /\ registry' = GetMetadataEffect(registry, heap[r].cls)
    /\ last' = LastCall("getTrackedFields", "none", "none", Undefined, Ref(r),
                         Cardinality(GetTrackedFields(registry, heap[r])), NoError)
    /\ UNCHANGED <<heap, handles, hist, snap, logger>>

\* metadataManager.isFieldTracked(target, field) on object r; last keeps the
\* target in old and the boolean returned in value
IsFieldTrackedCall(r, field) ==
    /\ heap[r].alloc
    /\ registry' = GetMetadataEffect(registry, heap[r].cls)
    /\ last' = LastCall("isFieldTracked", "none", field,
                         Bool(IF IsFieldTracked(registry, heap[r], field)
                              THEN "true" ELSE "false"),
                         Ref(r), 0, NoError)
    /\ UNCHANGED <<heap, handles, hist, snap, logger>>

\* metadataManager.setFieldTracking(C, field, track), as @AuditField() applies it
SetFieldTracking(c, field, track) ==
    /\ registry' = SetFieldTrackingOp(registry, c, field, track)
    /\ last' = Last("configure", "none", NoError)
    /\ UNCHANGED <<heap, handles, hist, snap, logger>>

\* metadataManager.setFieldIgnored(C, field, ignored), as @AuditIgnore() applies it
SetFieldIgnored(c, field, ignored) ==
    /\ registry' = SetFieldIgnoredOp(registry, c, field, ignored)
    /\ last' = Last("configure", "none", NoError)
    /\ UNCHANGED <<heap, handles, hist, snap, logger>>

\* metadataManager.setClassLevelAudit(C, enabled), as @Auditable() applies it
SetClassLevelAudit(c, enabled) ==
    /\ registry' = SetClassLevelAuditOp(registry, c, enabled)
    /\ last' = Last("configure", "none", NoError)
    /\ UNCHANGED <<heap, handles, hist, snap, logger>>

\* A configuration call whose arguments are any JavaScript values
CallSetFieldTracking(target, field, track) ==
    /\ registry' = SetFieldTrackingArgs(registry, target, field, track)
    /\ last' = LastConfig("setFieldTracking", target, field, track)
    /\ UNCHANGED <<heap, handles, hist, snap, logger>>

CallSetFieldIgnored(target, field, ignored) ==
    /\ registry' = SetFieldIgnoredArgs(registry, target, field, ignored)
    /\ last' = LastConfig("setFieldIgnored", target, field, ignored)
    /\ UNCHANGED <<heap, handles, hist, snap, logger>>

CallSetClassLevelAudit(target, enabled) ==
    /\ registry' = SetClassLevelAuditArgs(registry, target, enabled)
    /\ last' = LastConfig("setClassLevelAudit", target, Undefined, enabled)
    /\ UNCHANGED <<heap, handles, hist, snap, logger>>

\* tracker.trackChange(field, oldValue, newValue) called on a tracker directly,
\* the tracker being the one kept in slot h; last keeps the field in value
TrackChangeCall(h, field, oldValue, newValue) ==
    /\ handles' = [handles EXCEPT ![h].changes = TrackChangeArgs(@, field, oldValue, newValue)]
    /\ last' = LastCall("trackChange", h, "none", field, oldValue, 0, NoError)
    /\ UNCHANGED <<registry, heap, hist, snap, logger>>

\* tracker.reset() called on the tracker kept in slot h
TrackerReset(h) ==
    /\ handles' = [handles EXCEPT ![h].changes = Reset(@)]
    /\ last' = LastCall("reset", h, "none", Undefined, Undefined,
                         Len(handles[h].changes), NoError)
    /\ UNCHANGED <<registry, heap, hist, snap, logger>>

\* tracker.hasChanges() called on the tracker kept in slot h; last keeps the
\* boolean it returned in value
HasChangesCall(h) ==
    /\ last' = LastCall("hasChanges", h, "none",
                         Bool(IF HasChanges(handles[h].changes) THEN "true" ELSE "false"),
                         Undefined, 0, NoError)
    /\ UNCHANGED <<registry, heap, handles, hist, snap, logger>>

\* enableAuditLogging(level)
EnableAuditLogging(level) ==
    /\ logger' = [logger EXCEPT !.config = [enabled |-> TRUE, level |-> level]]
    /\ last' = Last("enableAuditLogging", "none", NoError)
    /\ UNCHANGED <<registry, heap, handles, hist, snap>>

\* disableAuditLogging()
DisableAuditLogging ==
    /\ logger' = [logger EXCEPT !.config.enabled = FALSE]
    /\ last' = Last("disableAuditLogging", "none", NoError)
    /\ UNCHANGED <<registry, heap, handles, hist, snap>>

\* User code replaces the console methods by ones that throw, or puts them back
ConsoleBecomes(state) ==
    /\ logger' = [logger EXCEPT !.console = state]
    /\ last' = Last("console", "none", NoError)
    /\ UNCHANGED <<registry, heap, handles, hist, snap>>

\* An operation that the exception of a diagnostic ends: it does nothing and
\* its caller gets the exception
SinkFailure(op, h) ==
    /\ last' = Last(op, h, SinkErrorRaised)
    /\ UNCHANGED <<registry, heap, handles, hist, snap, logger>>

\* The levels of the diagnostics a write through handle h emits: a warning
\* when the target has no constructor or its class reads a truthy value that
\* is no configuration
WriteDiagnostics(h) ==
    LET c == heap[handles[h].target].cls IN
    IF c = NoClass THEN {"WARN"}
    ELSE IF ReadMetaKey(registry, c).shape = "corrupt" THEN {"WARN"}
    ELSE {}

\* The levels of the diagnostics trackChange(field, ...) emits
TrackChangeDiagnostics(field) ==
    IF ~ToBoolean(field) \/ HasZeroLength(field) THEN {"WARN"} ELSE {}

\* The levels of the diagnostics setFieldTracking(target, field, ...) emits
SetFieldTrackingDiagnostics(target, field) ==
    IF IsInvalidClassRef(target) \/ IsInvalidFieldName(field) THEN {"ERROR"}
    ELSE IF ReadMetaKey(registry, target.v).shape = "corrupt" THEN {"WARN"}
    ELSE {}

\* wrapped.setF(value), setF being a method of the class whose body is
\* this.f = value (strict mode: a refused assignment raises)
MethodSet(h, f, value) ==
    /\ handles[h].alloc
    /\ LET t    == handles[h].target
           obj  == heap[t]
           self == MethodThis(h, t)
           old  == ReflectGet(obj, f)
       IN  IF self = Ref(t)
           THEN LET r == ReflectSet(obj, f, value)
                IN  /\ heap' = [heap EXCEPT ![t] = r.obj]
                    /\ last' = LastCall("method", h, f, value, old, 0,
                                         IF r.success THEN NoError ELSE TypeErrorRaised)
                    /\ UNCHANGED <<handles, snap, logger>>
           ELSE LET r == ProxySet(registry, obj, handles[h].changes, f, value)
                IN  /\ heap' = [heap EXCEPT ![t] = r.obj]
                    /\ handles' = [handles EXCEPT ![h].changes = r.changes]
                    /\ snap' = Aliased(snap, h, r.changes)
                    /\ last' = LastCall("method", h, f, value, old, 0,
                                         IF r.success THEN NoError ELSE TypeErrorRaised)
    /\ UNCHANGED <<registry, hist, logger>>

\* wrapped.computed = value, the class having
\* set computed(v) { this.f = v.toLowerCase() } and the accessor itself not
\* being marked: the set trap hands the write to Reflect.set, which runs the
\* setter with the receiver as this; the setter raises TypeError for a value
\* that has no toLowerCase
SetterWrite(h, f, value) ==
    /\ handles[h].alloc
    /\ LET t    == handles[h].target
           obj  == heap[t]
           self == SetterThis(h, t)
           old  == ReflectGet(obj, f)
           r    == IF value.type # "String"
                   THEN [obj |-> obj, changes |-> handles[h].changes, success |-> FALSE]
                   ELSE IF self = Val("Proxy", h)
                   THEN ProxySet(registry, obj, handles[h].changes, f, ToLowerCase(value))
                   ELSE [obj |-> ReflectSet(obj, f, ToLowerCase(value)).obj,
                         changes |-> handles[h].changes,
                         success |-> ReflectSet(obj, f, ToLowerCase(value)).success]
       IN  /\ heap' = [heap EXCEPT ![t] = r.obj]
           /\ handles' = [handles EXCEPT ![h].changes = r.changes]
           /\ snap' = Aliased(snap, h, r.changes)
           /\ last' = LastCall("setter", h, f, value, old, 0,
                                IF r.success THEN NoError ELSE TypeErrorRaised)
           /\ registry' = GetMetadataEffect(registry, obj.cls)
    /\ UNCHANGED <<hist, logger>>

\* Reading wrapped.accessor through handle h of obj, the accessor being
\* get accessor() { return this.f }: the get trap hands the read to Reflect.get
\* with the proxy as receiver, so the getter reads f through the proxy, and the
\* trap binds what the getter returns when that is a function
AccessorGet(obj, h, f) ==
    LET value == ProxyGet(obj, h, f) IN
    IF value = ReadTypeError THEN ReadTypeError
    ELSE IF value.type \in {"Function", "BoundFunction"} THEN Bind(value)
    ELSE value

\* wrapped.accessor = value, the target having get accessor() { return this.f }
\* and set accessor(v) { this.f = v.toLowerCase() } and the accessor itself not
\* being tracked: the set trap hands the write to Reflect.set, which runs the
\* setter with the proxy as this, and the setter raises TypeError for a value
\* that has no toLowerCase; last keeps the backing field f in prop
AccessorWrite(h, f, value) ==
    /\ handles[h].alloc
    /\ LET t    == handles[h].target
           obj  == heap[t]
           self == SetterThis(h, t)
           old  == ReflectGet(obj, f)
           low  == ToLowerCase(value)
           r    == IF value.type # "String"
                   THEN [obj |-> obj, changes |-> handles[h].changes, success |-> FALSE]
                   ELSE IF self = Val("Proxy", h)
                   THEN ProxySet(registry, obj, handles[h].changes, f, low)
                   ELSE [obj |-> ReflectSet(obj, f, low).obj,
                         changes |-> handles[h].changes,
                         success |-> ReflectSet(obj, f, low).success]
       IN  /\ heap' = [heap EXCEPT ![t] = r.obj]
           /\ handles' = [handles EXCEPT ![h].changes = r.changes]
           /\ snap' = Aliased(snap, h, r.changes)
           /\ last' = LastCall("accessor", h, f, value, old, 0,
                                IF r.success THEN NoError ELSE TypeErrorRaised)
           /\ registry' = GetMetadataEffect(registry, obj.cls)
    /\ UNCHANGED <<hist, logger>>

\* wrapped.getThis(), getThis being a method of the class whose body is return this
MethodSelf(h) ==
    /\ handles[h].alloc
    /\ last' = LastCall("getThis", h, "none", MethodThis(h, handles[h].target),
                         Undefined, 0, NoError)
    /\ UNCHANGED <<registry, heap, handles, hist, snap, logger>>

\* Two executions side by side, the first on object o1 behind handle h1 and
\* the second on o2 behind h2: each of the actions below is one operation
\* made in both.
\* new C() in both executions, with the same own properties
BothConstruct(cls, props) ==
    /\ ~heap["o1"].alloc /\ ~heap["o2"].alloc
    /\ heap' = [r \in AllRefs |-> [alloc |-> TRUE, cls |-> cls, props |-> props,
                                    frozen |-> FALSE, sealed |-> FALSE, readonly |-> {}]]
    /\ last' = Last("construct", "none", NoError)
    /\ UNCHANGED <<registry, handles, hist, snap, logger>>

\* Audit(target) in both executions
BothAudit ==
    /\ heap["o1"].alloc /\ heap["o2"].alloc
    /\ ~handles["h1"].alloc /\ ~handles["h2"].alloc
    /\ ~IsInvalidTarget(Ref("o1")) /\ ~IsInvalidProxyTarget(Ref("o1"))
    /\ handles' = [handles EXCEPT
                      !["h1"] = [alloc |-> TRUE, target |-> "o1",
                                 changes |-> NewTracker(handles, "o1")],
                      !["h2"] = [alloc |-> TRUE, target |-> "o2",
                                 changes |-> NewTracker(handles, "o2")]]
    /\ hist' = [h \in AllHandles |-> FreshHistory]
    /\ last' = Last("Audit", "none", NoError)
    /\ UNCHANGED <<registry, heap, snap, logger>>

\* wrapped[prop] = v1 in the first execution and then wrapped[prop] = v2 in the
\* second, each through its own handle on the target that handle wraps; last
\* keeps v1 in value and v2 in old
BothWrite(prop, v1, v2) ==
    /\ handles["h1"].alloc /\ handles["h2"].alloc
    /\ LET t1    == handles["h1"].target
           t2    == handles["h2"].target
           r1    == ProxySet(registry, heap[t1], handles["h1"].changes, prop, v1)
           heap1 == [heap EXCEPT ![t1] = r1.obj]
           reg1  == GetMetadataEffect(registry, heap[t1].cls)
           r2    == ProxySet(reg1, heap1[t2], handles["h2"].changes, prop, v2)
       IN  /\ heap' = [heap1 EXCEPT ![t2] = r2.obj]
           /\ handles' = [handles EXCEPT !["h1"].changes = r1.changes,
                                         !["h2"].changes = r2.changes]
           /\ snap' = Aliased(Aliased(snap, "h1", r1.changes), "h2", r2.changes)
           /\ last' = LastCall("writeBoth", "none", prop, v1, v2, 0,
                                IF r1.success /\ r2.success THEN NoError
                                ELSE TypeErrorRaised)
           /\ registry' = GetMetadataEffect(reg1, heap1[t2].cls)
    /\ UNCHANGED <<hist, logger>>

\* wrapped.resetAudit() in both executions: each reads its accessor through its
\* own handle and resets its own tracker, unless that read raises TypeError
BothReset ==
    /\ handles["h1"].alloc /\ handles["h2"].alloc
    /\ LET raises(h) == ProxyGet(heap[handles[h].target], h, "resetAudit") = ReadTypeError
           after(h)  == IF raises(h) THEN handles[h].changes ELSE Reset(handles[h].changes)
       IN  /\ handles' = [handles EXCEPT !["h1"].changes = after("h1"),
                                         !["h2"].changes = after("h2")]
           /\ hist' = [h \in AllHandles |-> IF raises(h) THEN hist[h] ELSE FreshHistory]
           /\ snap' = Aliased(Aliased(snap, "h1", after("h1")), "h2", after("h2"))
           /\ last' = Last("resetBoth", "none",
                           IF raises("h1") \/ raises("h2") THEN TypeErrorRaised ELSE NoError)
    /\ UNCHANGED <<registry, heap, logger>>

\* User code overwrites what constructor C holds under AUDIT_METADATA_KEY with a
\* value that is no metadata: shape "corrupt" a truthy one, "falsy" a falsy one
Corrupt(c, shape) ==
    /\ registry' = [registry EXCEPT ![c] = [NoRecord EXCEPT !.shape = shape]]
    /\ last' = Last("corrupt", "none", NoError)
    /\ UNCHANGED <<heap, handles, hist, snap, logger>>

\* Object.seal(obj) by user code
ObjectSeal(r) ==
    /\ heap[r].alloc
    /\ heap' = [heap EXCEPT ![r].sealed = TRUE]
    /\ last' = Last("seal", "none", NoError)
    /\ UNCHANGED <<registry, handles, hist, snap, logger>>

\* Object.defineProperty(obj, f, {writable: false}) by user code, on an own property
DefineReadOnly(r, f) ==
    /\ heap[r].alloc
    /\ heap[r].props[f] # Absent
    /\ ~heap[r].frozen
    /\ heap' = [heap EXCEPT ![r].readonly = @ \cup {f}]
    /\ last' = Last("defineProperty", "none", NoError)
    /\ UNCHANGED <<registry, handles, hist, snap, logger>>

\* const kept = wrapped.changes()
CallChanges(h) ==
    /\ handles[h].alloc
    /\ IF ProxyGet(heap[handles[h].target], h, "changes") = ReadTypeError
       THEN /\ last' = Last("changes", h, TypeErrorRaised)
            /\ UNCHANGED snap
       ELSE /\ LET a == GetChangesArray(handles[h].changes)
               IN  snap' = [taken |-> TRUE, h |-> h, fresh |-> a.fresh, items |-> a.items]
            /\ last' = Last("changes", h, NoError)
    /\ UNCHANGED <<registry, heap, handles, hist, logger>>

\* The longest array the caller makes of a kept array
MaxSnapLen == 2

\* The caller changes the kept array to items
ArrayBecomes(op, items) ==
    /\ snap' = [snap EXCEPT !.items = items]
    /\ handles' = [handles EXCEPT ![snap.h].changes = Backing(snap, snap.h, @, items)]
    /\ last' = Last(op, snap.h, NoError)
    /\ UNCHANGED <<registry, heap, hist, logger>>

\* kept.push(rec)
ArrayPush(rec) ==
    /\ snap.taken
    /\ Len(snap.items) < MaxSnapLen
    /\ ArrayBecomes("push", Append(snap.items, rec))

\* kept.pop()
ArrayPop ==
    /\ snap.taken
    /\ Len(snap.items) > 0
    /\ ArrayBecomes("pop", SubSeq(snap.items, 1, Len(snap.items) - 1))

\* kept[i - 1] = rec
ArrayReplace(i, rec) ==
    /\ snap.taken
    /\ i \in 1..Len(snap.items)
    /\ ArrayBecomes("replace", [snap.items EXCEPT ![i] = rec])

\* kept[i - 1].newValue = v, in strict mode: refused on a frozen record; a record
\* object the tracker's Map holds as well changes there too
RecordAssign(i, v) ==
    /\ snap.taken
    /\ i \in 1..Len(snap.items)
    /\ LET rec == snap.items[i] IN
       IF rec.frozen
       THEN /\ last' = Last("assign", snap.h, TypeErrorRaised)
            /\ UNCHANGED <<handles, snap, logger>>
       ELSE /\ snap' = [snap EXCEPT !.items[i].newValue = v]
            /\ handles' = [handles EXCEPT ![snap.h].changes =
                  [k \in 1..Len(@) |->
                      IF @[k].value = rec THEN [@[k] EXCEPT !.value.newValue = v] ELSE @[k]]]
            /\ last' = Last("assign", snap.h, NoError)
    /\ UNCHANGED <<registry, heap, hist, logger>>

(***************************************************************************)
(* Input domains                                                           *)
(***************************************************************************)
\* The number of distinct strings the callers write
NumStrings == 2

StringNames == <<"a", "b", "c", "d">>

Strings == {Str(StringNames[i]) : i \in 1..NumStrings}

\* The own properties an object may be created with: fields F, each absent or holding a value of V
PropsOver(F, V) ==
    {[f \in AllFields |-> IF f \in F THEN p[f] ELSE Absent] : p \in [F -> V]}

\* What callers pass to Audit besides objects
NonObjects ==
    {Null, Undefined, Num("42"), PosZero, NaN, Str("string"), Str(""), Bool("true"),
     Bool("false"), Val("Symbol", "sym"), Fn("testFunction")}

\* The next-state relation: objects of the classes K are created with own
\* properties P, the classes C are configured on the fields CF, the values V are
\* written to the fields F, and the write history is kept for the fields TF
NextOver(C, K, P, CF, F, V, TF) ==
    \/ \E c \in K, p \in P, fz \in BOOLEAN : Construct("o1", c, p, fz)
    \/ \E a \in NonObjects \cup {Ref("o1")} : AuditCall(a, "h1")
    \/ \E f \in F, v \in V : ProxyWrite("h1", f, v) /\ Traced(TF, "h1", f, v)
    \/ ResetAudit("h1")
    \/ \E c \in C, f \in CF, b \in BOOLEAN : SetFieldTracking(c, f, b)
    \/ \E c \in C, f \in CF, b \in BOOLEAN : SetFieldIgnored(c, f, b)
    \/ \E c \in C, b \in BOOLEAN : SetClassLevelAudit(c, b)

(***************************************************************************)
(* Spec: one class User, the fields "name" and "", strings, with history   *)
(***************************************************************************)
Fields == {"name", ""}
Values == Strings

Next == NextOver({"User"}, {"User"},
                 PropsOver(Fields, Values \cup {Absent}), Fields, Fields, Values, Fields)

Spec == Init /\ [][Next]_vars

(***************************************************************************)
(* SpecNum: the values written are the numbers NaN, +0 and -0              *)
(***************************************************************************)
NumValues == {NaN, PosZero, NegZero}

NextNum == NextOver({"User"}, {"User"}, PropsOver(Fields, NumValues),
                    Fields, Fields, NumValues, {})

SpecNum == Init /\ [][NextNum]_vars

(***************************************************************************)
(* SpecIgnore: the fields "name" and "secret"                              *)
(***************************************************************************)
IgnoreFields == {"name", "secret"}

NextIgnore == NextOver({"User"}, {"User"}, PropsOver(IgnoreFields, Strings),
                       {"secret"}, IgnoreFields, Strings, {})

SpecIgnore == Init /\ [][NextIgnore]_vars

(***************************************************************************)
(* SpecRead: the fields "name" and "changes", a string and a function; the *)
(* targets also have an accessor whose setter stores the lower-cased value *)
(* in "name", written with strings in either case and with a function      *)
(***************************************************************************)
ReadFields == {"name", "changes"}
ReadValues == {Str("a"), Fn("callback")}
AccessorValues == {Str("UPDATED"), Str("updated"), Fn("callback")}

NextRead ==
    \/ NextOver({"User"}, {"User", "Object"}, PropsOver(ReadFields, {Str("a"), Absent}),
                {"name"}, ReadFields, ReadValues, {})
    \/ \E v \in AccessorValues : AccessorWrite("h1", "name", v)

SpecRead == Init /\ [][NextRead]_vars

(***************************************************************************)
(* SpecWrap: class instances, plain objects, arrays and objects without a  *)
(* constructor, with the field "name"; the objects may be frozen, sealed   *)
(* or given a non-writable field                                           *)
(***************************************************************************)
WrapFields == {"name"}

NextWrap ==
    \/ NextOver({"User"}, {"User", "Object", "Array", NoClass},
                PropsOver(WrapFields, Strings \cup {Absent}),
                WrapFields, WrapFields, Strings, {})
    \/ ObjectSeal("o1")
    \/ \E f \in WrapFields : DefineReadOnly("o1", f)

SpecWrap == Init /\ [][NextWrap]_vars

(***************************************************************************)
(* Two handles. Instances of User are created unfrozen with own properties *)
(* P, Audit pairs handle and object as T says, User is configured on the   *)
(* fields CF, and the values V are written to the fields F through either  *)
(* handle.                                                                 *)
(***************************************************************************)
NextTwo(T, P, CF, F, V) ==
    \/ \E t \in T, p \in P : Construct(t[2], "User", p, FALSE)
    \/ \E t \in T : AuditCall(Ref(t[2]), t[1])
    \/ \E h \in AllHandles, f \in F, v \in V : ProxyWrite(h, f, v) /\ Traced({}, h, f, v)
    \/ \E h \in AllHandles : ResetAudit(h)
    \/ \E f \in CF, b \in BOOLEAN : SetFieldTracking("User", f, b)
    \/ \E f \in CF, b \in BOOLEAN : SetFieldIgnored("User", f, b)
    \/ \E b \in BOOLEAN : SetClassLevelAudit("User", b)

(***************************************************************************)
(* SpecShared: two instances of User, each behind its own handle           *)
(***************************************************************************)
NextShared == NextTwo({<<"h1", "o1">>, <<"h2", "o2">>}, PropsOver(WrapFields, Strings),
                      WrapFields, WrapFields, Strings)

SpecShared == Init /\ [][NextShared]_vars

(***************************************************************************)
(* SpecTwo: one instance of User behind two handles                        *)
(***************************************************************************)
NextTwoHandles == NextTwo({<<"h1", "o1">>, <<"h2", "o1">>},
                          PropsOver(WrapFields, Strings \cup {Absent}),
                          WrapFields, WrapFields, Strings)

SpecTwo == Init /\ [][NextTwoHandles]_vars

(***************************************************************************)
(* SpecSnap: the caller keeps the array changes() returned and changes it  *)
(***************************************************************************)
\* An object the caller made itself
CallerRecord == [field |-> "name", oldValue |-> Str("a"), newValue |-> Str("a"),
                 frozen |-> FALSE]

NextSnap ==
    \/ NextOver({"User"}, {"User"}, PropsOver(WrapFields, {Str("a")}),
                WrapFields, WrapFields, Strings, {})
    \/ CallChanges("h1")
    \/ ArrayPush(CallerRecord)
    \/ ArrayPop
    \/ \E i \in 1..MaxSnapLen : ArrayReplace(i, CallerRecord)
    \/ \E i \in 1..MaxSnapLen : RecordAssign(i, Str("z"))

SpecSnap == Init /\ [][NextSnap]_vars

(***************************************************************************)
(* SpecFail: targets that refuse assignments: frozen, sealed, or with a    *)
(* non-writable field; the field "name"                                    *)
(***************************************************************************)
NextFail ==
    \/ NextOver({"User"}, {"User"}, PropsOver(WrapFields, {Str("a"), Absent}),
                WrapFields, WrapFields, Strings, {})
    \/ ObjectSeal("o1")
    \/ \E f \in WrapFields : DefineReadOnly("o1", f)

SpecFail == Init /\ [][NextFail]_vars

(***************************************************************************)
(* SpecResilient: the record of User may be missing or corrupted, targets  *)
(* may lack a constructor; the field "name"                                *)
(***************************************************************************)
CorruptShapes == {"corrupt", "falsy"}

NextResilient ==
    \/ NextOver({"User"}, {"User", NoClass}, PropsOver(WrapFields, {Str("a"), Absent}),
                WrapFields, WrapFields, Strings, {})
    \/ \E shape \in CorruptShapes : Corrupt("User", shape)
    \/ CallChanges("h1")

SpecResilient == Init /\ [][NextResilient]_vars

(***************************************************************************)
(* SpecMethod: instances of User whose methods are called, and whose       *)
(* accessor is written, through the handle; the field "name". The accessor *)
(* is written with strings in either case and with a number                *)
(***************************************************************************)
SetterValues == Strings \cup {Str("NEW VALUE"), NaN}

NextMethod ==
    \/ NextOver({"User"}, {"User"}, PropsOver(WrapFields, {Str("a"), Absent}),
                WrapFields, WrapFields, Strings, {})
    \/ \E f \in WrapFields, v \in Strings : MethodSet("h1", f, v)
    \/ MethodSelf("h1")
    \/ \E f \in WrapFields, v \in SetterValues : SetterWrite("h1", f, v)

SpecMethod == Init /\ [][NextMethod]_vars

(***************************************************************************)
(* SpecReserved: one instance of User, frozen or not, behind two handles,   *)
(* the fields "changes" and "resetAudit" holding functions                 *)
(***************************************************************************)
ReservedNames == {"changes", "resetAudit"}

NextReserved ==
    \/ NextTwo({<<"h1", "o1">>, <<"h2", "o1">>},
               PropsOver(ReservedNames, {Fn("own"), Absent}),
               {"changes"}, {"changes"}, {Fn("callback")})
    \/ \E p \in PropsOver(ReservedNames, {Fn("own"), Absent}) :
          Construct("o1", "User", p, TRUE)

SpecReserved == Init /\ [][NextReserved]_vars

(***************************************************************************)
(* SpecReset: one instance of User created with name = "a", class-level    *)
(* audit that stays on once set, resets, and arrays kept from changes()    *)
(***************************************************************************)
NextReset ==
    \/ \E p \in PropsOver(WrapFields, {Str("a")}) : Construct("o1", "User", p, FALSE)
    \/ AuditCall(Ref("o1"), "h1")
    \/ \E f \in WrapFields, v \in Strings :
          ProxyWrite("h1", f, v) /\ Traced(WrapFields, "h1", f, v)
    \/ ResetAudit("h1")
    \/ SetClassLevelAudit("User", TRUE)
    \/ CallChanges("h1")

SpecReset == Init /\ [][NextReset]_vars

(***************************************************************************)
(* SpecRegistry: the configuration calls on Base and Derived, whose stored *)
(* records may be missing or corrupted; the fields "name", "secret" and "" *)
(***************************************************************************)
RegistryClasses == {"Base", "Derived"}
RegistryFields  == {"name", "secret", ""}

NextRegistry ==
    \/ \E c \in RegistryClasses, f \in RegistryFields, b \in BOOLEAN : SetFieldTracking(c, f, b)
    \/ \E c \in RegistryClasses, f \in RegistryFields, b \in BOOLEAN : SetFieldIgnored(c, f, b)
    \/ \E c \in RegistryClasses, b \in BOOLEAN : SetClassLevelAudit(c, b)
    \/ \E c \in RegistryClasses, shape \in CorruptShapes : Corrupt(c, shape)

SpecRegistry == Init /\ [][NextRegistry]_vars

(***************************************************************************)
(* SpecConfig: configuration calls whose class reference is a class, null, *)
(* undefined, a string or an object and whose field is a name, the empty   *)
(* string, a number, undefined or a symbol                                 *)
(***************************************************************************)
ClassRefs == {Fn("Base"), Fn("Derived"), Null, Undefined, Str("Base"), Ref("o1")}
FieldArgs == {Str("name"), Str(""), Num("42"), Undefined, Val("Symbol", "name")}

NextConfig ==
    \/ \E t \in ClassRefs, f \in FieldArgs, b \in BOOLEAN : CallSetFieldTracking(t, f, b)
    \/ \E t \in ClassRefs, f \in FieldArgs, b \in BOOLEAN : CallSetFieldIgnored(t, f, b)
    \/ \E t \in ClassRefs, b \in BOOLEAN : CallSetClassLevelAudit(t, b)
    \/ \E c \in RegistryClasses, shape \in CorruptShapes : Corrupt(c, shape)

SpecConfig == Init /\ [][NextConfig]_vars

(***************************************************************************)
(* SpecTracker: a tracker used directly, with fields that are names, the   *)
(* empty string, numbers and undefined; the entries of its Map are keyed   *)
(* by the value passed as field                                            *)
(***************************************************************************)
TrackerFields == {Str("name"), Str("42"), Str(""), Num("42"), PosZero, Undefined}

NextTracker ==
    \/ \E f \in TrackerFields, o \in Strings, v \in Strings : TrackChangeCall("h1", f, o, v)
    \/ TrackerReset("h1")
    \/ HasChangesCall("h1")

SpecTracker == Init /\ [][NextTracker]_vars

(***************************************************************************)
(* SpecInherit: instances of Base and of Derived, which extends Base; the  *)
(* decorators @AuditField(), @AuditIgnore() and @Auditable() applied to    *)
(* either class in any order; the instances hold the field "name", and     *)
(* "secret" is a field only marked                                         *)
(***************************************************************************)
InheritClasses == {"Base", "Derived"}

NextInherit ==
    \/ \E c \in InheritClasses, p \in PropsOver(WrapFields, {Str("a")}) :
          Construct("o1", c, p, FALSE)
    \/ AuditCall(Ref("o1"), "h1")
    \/ \E f \in WrapFields, v \in Strings : ProxyWrite("h1", f, v) /\ Traced({}, "h1", f, v)
    \/ \E c \in InheritClasses, f \in IgnoreFields : SetFieldTracking(c, f, TRUE)
    \/ \E c \in InheritClasses, f \in WrapFields : SetFieldIgnored(c, f, TRUE)
    \/ \E c \in InheritClasses : SetClassLevelAudit(c, TRUE)

SpecInherit == Init /\ [][NextInherit]_vars

(***************************************************************************)
(* SpecRace: configuration calls on Base made by any number of callers.    *)
(* Every call runs to completion (the registry has no suspension point),   *)
(* so an interleaving of callers is an order of whole calls                *)
(***************************************************************************)
RaceFields == {Str("name"), Str("secret")}

NextRace ==
    \/ \E f \in RaceFields, b \in BOOLEAN : CallSetFieldTracking(Fn("Base"), f, b)
    \/ \E f \in RaceFields, b \in BOOLEAN : CallSetFieldIgnored(Fn("Base"), f, b)
    \/ \E b \in BOOLEAN : CallSetClassLevelAudit(Fn("Base"), b)

SpecRace == Init /\ [][NextRace]_vars

(***************************************************************************)
(* SpecLog: the logger enabled at any level, disabled, and with console    *)
(* methods that throw, around operations that emit diagnostics: a write    *)
(* while User holds a corrupted record, trackChange and setFieldTracking   *)
(* with invalid arguments                                                  *)
(***************************************************************************)
NextLog ==
    \/ \E p \in PropsOver(WrapFields, {Str("a")}) : Construct("o1", "User", p, FALSE)
    \/ AuditCall(Ref("o1"), "h1")
    \/ \E v \in Strings :
          IF handles["h1"].alloc /\ Propagates(logger, WriteDiagnostics("h1"))
          THEN SinkFailure("write", "h1")
          ELSE ProxyWrite("h1", "name", v) /\ Traced({}, "h1", "name", v)
    \/ \E f \in {Str("name"), Str("")} :
          IF Propagates(logger, TrackChangeDiagnostics(f))
          THEN SinkFailure("trackChange", "h2")
          ELSE TrackChangeCall("h2", f, Str("a"), Str("b"))
    \/ \E t \in {Fn("User"), Null}, b \in BOOLEAN :
          IF Propagates(logger, SetFieldTrackingDiagnostics(t, Str("name")))
          THEN SinkFailure("call", "none")
          ELSE CallSetFieldTracking(t, Str("name"), b)
    \/ Corrupt("User", "corrupt")
    \/ \E level \in LogLevels : EnableAuditLogging(level)
    \/ DisableAuditLogging
    \/ \E state \in {"works", "throws"} : ConsoleBecomes(state)

SpecLog == Init /\ [][NextLog]_vars

(***************************************************************************)
(* SpecSymbol: instances of User holding the field "name" and a property   *)
(* whose key is a symbol; the decorators are applied to both keys          *)
(***************************************************************************)
SymbolFields == {"name", SymbolKey}

NextSymbol == NextOver({"User"}, {"User"}, PropsOver(SymbolFields, {Str("a")}),
                       SymbolFields, SymbolFields, Strings, {})

SpecSymbol == Init /\ [][NextSymbol]_vars

(***************************************************************************)
(* SpecLate: instances of User created without the fields "name" and "",   *)
(* which writes through the handle add; only class-level audit is          *)
(* configured                                                              *)
(***************************************************************************)
NextLate ==
    \/ \E p \in PropsOver(Fields, {Absent}) : Construct("o1", "User", p, FALSE)
    \/ AuditCall(Ref("o1"), "h1")
    \/ \E f \in Fields, v \in Strings : ProxyWrite("h1", f, v) /\ Traced({}, "h1", f, v)
    \/ ResetAudit("h1")
    \/ \E b \in BOOLEAN : SetClassLevelAudit("User", b)

SpecLate == Init /\ [][NextLate]_vars

(***************************************************************************)
(* SpecFixed: User is configured by its decorators before any instance     *)
(* exists and not afterwards; one instance, possibly frozen, behind one    *)
(* handle, through which every write goes; the fields "name" and "secret"  *)
(***************************************************************************)
NextFixed ==
    \/ \E p \in PropsOver(IgnoreFields, {Str("a"), Absent}), fz \in BOOLEAN :
          Construct("o1", "User", p, fz)
    \/ AuditCall(Ref("o1"), "h1")
    \/ \E f \in IgnoreFields, v \in Strings :
          ProxyWrite("h1", f, v) /\ Traced({}, "h1", f, v)
    \/ ResetAudit("h1")
    \/ \E f \in IgnoreFields : ~heap["o1"].alloc /\ SetFieldTracking("User", f, TRUE)
    \/ \E f \in IgnoreFields : ~heap["o1"].alloc /\ SetFieldIgnored("User", f, TRUE)
    \/ ~heap["o1"].alloc /\ SetClassLevelAudit("User", TRUE)

SpecFixed == Init /\ [][NextFixed]_vars

(***************************************************************************)
(* SpecQuery: the registry is asked about instances of User, which may be  *)
(* configured, of Object, which never is, and about objects without a      *)
(* constructor, directly and by writes through the handle                  *)
(***************************************************************************)
NextQuery ==
    \/ NextOver({"User"}, {"User", "Object", NoClass}, PropsOver(WrapFields, {Str("a"), Absent}),
                WrapFields, WrapFields, Strings, {})
    \/ GetTrackedFieldsCall("o1")
    \/ \E f \in WrapFields : IsFieldTrackedCall("o1", f)

SpecQuery == Init /\ [][NextQuery]_vars

(***************************************************************************)
(* SpecOrder: Base and Derived, which extends Base, are configured in any  *)
(* order, before and after an instance of either exists and is written     *)
(* through its handle; the instances hold the field "name"                 *)
(***************************************************************************)
NextOrder ==
    \/ \E c \in InheritClasses, f \in RaceFields : CallSetFieldTracking(Fn(c), f, TRUE)
    \/ \E c \in InheritClasses : CallSetFieldIgnored(Fn(c), Str("name"), TRUE)
    \/ \E c \in InheritClasses : CallSetClassLevelAudit(Fn(c), TRUE)
    \/ \E c \in InheritClasses, p \in PropsOver(WrapFields, {Str("a")}) :
          Construct("o1", c, p, FALSE)
    \/ AuditCall(Ref("o1"), "h1")
    \/ \E v \in Strings : ProxyWrite("h1", "name", v) /\ Traced({}, "h1", "name", v)

SpecOrder == Init /\ [][NextOrder]_vars

(***************************************************************************)
(* SpecPair: two executions on equal instances of User that make the same  *)
(* operations; the values they write are the same unless the field is      *)
(* ignored, and the values written to an ignored field are written nowhere *)
(* else. The decorators are applied at any time, @AuditIgnore() to secret, *)
(* and secret is un-ignored at any time by setFieldIgnored(User, "secret", *)
(* false)                                                                  *)
(***************************************************************************)
SecretValues == {Str("x"), Str("y")}

\* Field f is ignored by the configuration of User
IsIgnored(f) == f \in ConfigOf(registry, "User").ignoredFields

NextPair ==
    \/ \E p \in PropsOver(IgnoreFields, {Str("a")}) : BothConstruct("User", p)
    \/ BothAudit
    \/ \E f \in IgnoreFields, v \in Strings : ~IsIgnored(f) /\ BothWrite(f, v, v)
    \/ \E f \in IgnoreFields, v1, v2 \in SecretValues : IsIgnored(f) /\ BothWrite(f, v1, v2)
    \/ BothReset
    \/ \E f \in IgnoreFields : SetFieldTracking("User", f, TRUE)
    \/ \E b \in BOOLEAN : SetFieldIgnored("User", "secret", b)
    \/ SetClassLevelAudit("User", TRUE)

SpecPair == Init /\ [][NextPair]_vars

(***************************************************************************)
(* Statements                                                              *)
(***************************************************************************)
\* changes() of handle h
Changes(h) == GetChanges(handles[h].changes)

\* The positions of changes() of h that hold a record of field f
RecordsOf(h, f) == {i \in DOMAIN Changes(h) : Changes(h)[i].field = f}

\* changes() of h holds exactly one record of f, and it is {f, old, new}
HasExactly(h, f, old, new) ==
    /\ Cardinality(RecordsOf(h, f)) = 1
    /\ \A i \in RecordsOf(h, f) : Changes(h)[i] = ChangeRecordImpl(f, old, new)

\* No tracker holds two records with the same field name
NoDuplicateRecords ==
    \A h \in AllHandles : \A i, j \in DOMAIN Changes(h) :
        Changes(h)[i].field = Changes(h)[j].field => i = j

\* C1 as stated: after two or more value-changing writes through one handle to a
\* tracked field with no reset in between, changes() holds exactly one record of
\* that field, from the value before the first write to the value written last;
\* and no tracker ever holds two records with the same field name. Fails for the
\* field named "".
C1_CollapsingLaw_AsStated ==
    /\ NoDuplicateRecords
    /\ \A h \in AllHandles, f \in AllFields :
          hist[h][f].n = 2 => HasExactly(h, f, hist[h][f].first, hist[h][f].last)

\* C1 amended: the collapsing law holds for every tracked field whose name is
\* not the empty string, and no tracker ever holds two records with the same
\* field name.
C1_CollapsingLaw ==
    /\ NoDuplicateRecords
    /\ \A h \in AllHandles, f \in AllFields \ {""} :
          hist[h][f].n = 2 => HasExactly(h, f, hist[h][f].first, hist[h][f].last)

\* Two recorded writes absent -> "a" -> "b" of name left the one record {name, undefined, "b"}
C1_Witness ==
    /\ last.op = "write"
    /\ hist["h1"]["name"].n = 2
    /\ Changes("h1") = <<ChangeRecordImpl("name", Undefined, Str("b"))>>

\* C2 as stated: for every tracked field, the first value-changing write through
\* the handle records exactly one record {field, value before the write, written
\* value}. Fails for the field named "".
C2_FirstWrite_AsStated ==
    \A h \in AllHandles, f \in AllFields :
        hist[h][f].n = 1 => HasExactly(h, f, hist[h][f].first, hist[h][f].last)

\* C2 amended: for every tracked field whose name is not the empty string, the
\* first value-changing write through the handle records exactly one record
\* {field, value before the write, written value}.
C2_FirstWrite ==
    \A h \in AllHandles, f \in AllFields \ {""} :
        hist[h][f].n = 1 => HasExactly(h, f, hist[h][f].first, hist[h][f].last)

\* One recorded write "a" -> "b" of name left the one record {name, "a", "b"}
C2_Witness ==
    /\ last.op = "write"
    /\ hist["h1"]["name"].n = 1
    /\ Changes("h1") = <<ChangeRecordImpl("name", Str("a"), Str("b"))>>

\* The object handle h wraps
TargetOf(h) == heap[handles[h].target]

\* C3: writing to a field a value equal to its current value, NaN over NaN
\* included, never creates a record and never updates one, whatever the
\* tracker holds and whether or not the field is tracked.
C3_SameValueWrite ==
    [][( /\ last'.op = "write"
         /\ ProxyWrite(last'.h, last'.prop, last'.value)
         /\ ReflectGet(TargetOf(last'.h), last'.prop) = last'.value )
           => handles' = handles]_vars

\* NaN was written over NaN on the tracked field name, and the record the
\* tracker held from +0 to NaN is as it was
C3_Witness ==
    /\ last.op = "write" /\ last.prop = "name" /\ last.err = NoError
    /\ last.old = NaN /\ last.value = NaN
    /\ TrackedByContract(registry, TargetOf("h1"), "name")
    /\ Changes("h1") = <<ChangeRecordImpl("name", PosZero, NaN)>>

\* What C4 says of the fields F: a tracked write of NaN over NaN leaves the
\* tracker as it is, and a successful tracked write of +0 over -0 leaves a
\* record of the field whose newValue is +0 (from -0 when the field had none)
EqualityOver(F) ==
    \A h \in AllHandles, f \in F :
        /\ ( /\ ProxyWrite(h, f, NaN)
             /\ TrackedByContract(registry, TargetOf(h), f)
             /\ ReflectGet(TargetOf(h), f) = NaN )
           => handles' = handles
        /\ ( /\ ProxyWrite(h, f, PosZero)
             /\ TrackedByContract(registry, TargetOf(h), f)
             /\ ReflectGet(TargetOf(h), f) = NegZero
             /\ ~TargetOf(h).frozen )
           => /\ Cardinality(RecordsOf(h, f)') = 1
              /\ \A i \in RecordsOf(h, f)' :
                    /\ Changes(h)'[i].newValue = PosZero
                    /\ RecordsOf(h, f) = {} => Changes(h)'[i].oldValue = NegZero

\* C4 as stated: on every tracked field NaN over NaN produces no record and +0
\* over -0 produces a record. Fails for the field named "".
C4_Equality_AsStated == [][last'.op = "write" => EqualityOver(AllFields)]_vars

\* C4 amended: on every tracked field whose name is not the empty string, NaN
\* over NaN produces no record and +0 over -0 produces a record.
C4_Equality == [][last'.op = "write" => EqualityOver(AllFields \ {""})]_vars

\* +0 written over -0 on the tracked field name left the record {name, -0, +0}
C4_Witness ==
    /\ last.op = "write" /\ last.prop = "name"
    /\ last.old = NegZero /\ last.value = PosZero
    /\ Changes("h1") = <<ChangeRecordImpl("name", NegZero, PosZero)>>

\* C5: resetAudit() leaves changes() empty and every object as it was.
C5_Reset ==
    [][\A h \in AllHandles : ResetAudit(h) => (Changes(h)' = <<>> /\ heap' = heap)]_vars

\* resetAudit() ran on a tracker that held a record; changes() is empty and the
\* target still holds the value "b" written to name
C5_Witness ==
    /\ last.op = "resetAudit" /\ last.had = 1
    /\ Changes("h1") = <<>>
    /\ TargetOf("h1").props["name"] = Str("b")
    /\ TrackedByContract(registry, TargetOf("h1"), "name")

\* C6: a field none of whose value-changing writes since the handle was created
\* or last reset was made while the field was tracked has no record in
\* changes().
C6_UntrackedNeverRecorded ==
    \A h \in AllHandles, f \in AllFields :
        hist[h][f].n = 0 => RecordsOf(h, f) = {}

\* name went from "a" to "b" through the handle while untracked, and changes() is empty
C6_Witness ==
    /\ last.op = "write" /\ last.prop = "name" /\ last.err = NoError
    /\ last.old = Str("a") /\ last.value = Str("b")
    /\ TargetOf("h1").cls = "User"
    /\ ~TrackedByContract(registry, TargetOf("h1"), "name")
    /\ Changes("h1") = <<>>

\* The ignored fields of the class of obj
IgnoredOf(obj) == ConfigOf(registry, obj.cls).ignoredFields

\* An ignored field is never reported as tracked
IgnoredNeverTracked ==
    \A r \in AllRefs : heap[r].alloc =>
        \A f \in IgnoredOf(heap[r]) :
            /\ f \notin GetTrackedFields(registry, heap[r])
            /\ ~IsFieldTracked(registry, heap[r], f)

\* The writes name = a, secret = x, name = b through a handle with no records,
\* on an instance that has the field name, of a class with class-level audit
\* and secret ignored, leave exactly the record {name, initial value, b}
IgnoreScenario ==
    \A h \in AllHandles :
        LET obj == TargetOf(h)
            m   == ConfigOf(registry, obj.cls)
        IN  ( /\ handles[h].alloc /\ handles[h].changes = <<>> /\ ~obj.frozen
              /\ m.classLevelAudit /\ m.ignoredFields = {"secret"}
              /\ obj.props["name"] # Absent )
            => \A a, b, x \in Strings : a # b =>
                  LET s1 == ProxySet(registry, obj, handles[h].changes, "name", a)
                      s2 == ProxySet(registry, s1.obj, s1.changes, "secret", x)
                      s3 == ProxySet(registry, s2.obj, s2.changes, "name", b)
                  IN  GetChanges(s3.changes)
                        = <<ChangeRecordImpl("name", obj.props["name"], b)>>

\* C7: a field in ignoredFields is never reported as tracked and a write to it
\* never changes the tracker, whether it is also in trackedFields, or
\* class-level audit is on, or both; and the scenario above.
C7_IgnorePrecedence ==
    /\ [](IgnoredNeverTracked /\ IgnoreScenario)
    /\ [][( /\ last'.op = "write"
            /\ ProxyWrite(last'.h, last'.prop, last'.value)
            /\ last'.prop \in IgnoredOf(TargetOf(last'.h)) )
              => handles' = handles]_vars

\* With class-level audit on and secret both marked tracked and ignored, name
\* went to "b" and then secret was changed: only {name, "a", "b"} is recorded
C7_Witness ==
    /\ registry["User"] = StoredMeta({"secret"}, {"secret"}, TRUE)
    /\ last.op = "write" /\ last.prop = "secret" /\ last.err = NoError
    /\ last.old # last.value
    /\ Changes("h1") = <<ChangeRecordImpl("name", Str("a"), Str("b"))>>

\* The targets C8 names as invalid: null, undefined, a primitive or a function
NotAnObject(a) ==
    a.type \in {"Null", "Undefined", "Boolean", "Number", "String", "Symbol", "Function"}

\* C8: Audit(target) raises the invalid-target error and creates no handle
\* exactly when target is null, undefined, a primitive or a function; for any
\* other object it returns a handle on that object with an empty tracker.
C8_Wrap ==
    [][last'.op = "Audit" =>
       \A a \in NonObjects \cup {Ref(r) : r \in AllRefs}, h \in AllHandles :
          AuditCall(a, h) =>
              IF NotAnObject(a)
              THEN last'.err = InvalidTargetError /\ handles' = handles
              ELSE /\ last'.err = NoError
                   /\ handles'[h] = [alloc |-> TRUE, target |-> a.v, changes |-> <<>>]]_vars

\* Audit raised the invalid-target error while an object existed; no handle was created
C8_Witness ==
    /\ last.op = "Audit" /\ last.err = InvalidTargetError
    /\ heap["o1"].alloc
    /\ \A h \in AllHandles : ~handles[h].alloc

\* C9 as stated: after a successful write of v to any field through the handle,
\* reading the field through the handle yields v and the target holds v. Fails
\* for the names changes and resetAudit, for a function v, and for an accessor
\* whose setter stores another value than the one written.
C9_WriteThenRead_AsStated ==
    /\ (last.op = "write" /\ last.err = NoError) =>
          /\ ProxyGet(TargetOf(last.h), last.h, last.prop) = last.value
          /\ TargetOf(last.h).props[last.prop] = last.value
    /\ (last.op = "accessor" /\ last.err = NoError) =>
          /\ AccessorGet(TargetOf(last.h), last.h, last.prop) = last.value
          /\ TargetOf(last.h).props[last.prop] = last.value

\* C9 amended: after a successful write of v to a data field through the
\* handle the target holds v, tracked or not; reading the field through the
\* handle yields v unless the field is named changes or resetAudit or v is a
\* function. After a successful write of v to an accessor field the target holds
\* in the backing field what the setter stored, here v in lower case, and
\* reading the accessor through the handle yields what the getter returns,
\* that stored value.
C9_WriteThenRead ==
    /\ (last.op = "write" /\ last.err = NoError) =>
          /\ TargetOf(last.h).props[last.prop] = last.value
          /\ (last.prop \notin {"changes", "resetAudit"} /\ last.value.type # "Function")
                => ProxyGet(TargetOf(last.h), last.h, last.prop) = last.value
    /\ (last.op = "accessor" /\ last.err = NoError) =>
          /\ TargetOf(last.h).props[last.prop] = ToLowerCase(last.value)
          /\ AccessorGet(TargetOf(last.h), last.h, last.prop) = ToLowerCase(last.value)

\* "a" was written to the absent, untracked field name and is read back through the handle
C9_Witness ==
    /\ last.op = "write" /\ last.prop = "name" /\ last.err = NoError
    /\ last.old = Undefined /\ last.value = Str("a")
    /\ ~TrackedByContract(registry, TargetOf("h1"), "name")
    /\ ProxyGet(TargetOf("h1"), "h1", "name") = Str("a")

\* No constructor along the chain of class c holds a stored record
RECURSIVE NoConfiguration(_)
NoConfiguration(c) ==
    \/ c = NoClass
    \/ registry[c].shape = "absent" /\ NoConfiguration(Parent(c))

\* C10 as stated: for an object whose class has no configuration at all, or
\* that has no constructor, every write through the handle succeeds and
\* changes() is empty. Fails for an object that refuses the assignment: a
\* frozen one, a sealed one given a new field, one whose field is not writable.
C10_NoConfiguration_AsStated ==
    \A h \in AllHandles :
        (handles[h].alloc /\ NoConfiguration(TargetOf(h).cls)) =>
            /\ Changes(h) = <<>>
            /\ (last.op = "write" /\ last.h = h) => last.err = NoError

\* C10 amended: for an object whose class has no configuration at all, or that
\* has no constructor, changes() is always empty and a write through the handle
\* does what the plain assignment does: it fails, changing nothing, when the
\* target refuses the assignment (the target is frozen, the field is not
\* writable, or the field is new and the target is sealed), and otherwise it
\* succeeds, leaving the value on the target.
C10_NoConfiguration ==
    /\ [](\A h \in AllHandles :
             (handles[h].alloc /\ NoConfiguration(TargetOf(h).cls)) => Changes(h) = <<>>)
    /\ [][(/\ last'.op = "write"
           /\ handles[last'.h].alloc
           /\ NoConfiguration(TargetOf(last'.h).cls))
          => IF AssignmentRefused(TargetOf(last'.h), last'.prop)
             THEN last'.err = TypeErrorRaised /\ heap' = heap
             ELSE /\ last'.err = NoError
                  /\ heap' = [heap EXCEPT ![handles[last'.h].target].props[last'.prop] =
                                              last'.value]]_vars

\* name of a plain object went from "a" to "b" through the handle; changes() is empty
C10_Witness ==
    /\ last.op = "write" /\ last.prop = "name" /\ last.err = NoError
    /\ last.old = Str("a") /\ last.value = Str("b")
    /\ TargetOf("h1").cls = "Object"
    /\ Changes("h1") = <<>>

\* The set C11 names: the tracked fields of the class of obj, united with the own
\* enumerable fields of obj under class-level audit, minus the ignored fields
ContractTrackedFields(reg, obj) ==
    LET m == ConfigOf(reg, obj.cls) IN
    (m.trackedFields \cup (IF m.classLevelAudit THEN {f \in AllFields : obj.props[f] # Absent}
                           ELSE {}))
        \ m.ignoredFields

\* C11: for every configuration and every instance, getTrackedFields(instance)
\* is (trackedFields, united with the own enumerable field names under
\* class-level audit) minus ignoredFields, and isFieldTracked(instance, f) is
\* true exactly when f is in that set.
C11_TrackedFieldsContract ==
    \A r \in AllRefs : heap[r].alloc =>
        /\ GetTrackedFields(registry, heap[r]) = ContractTrackedFields(registry, heap[r])
        /\ \A f \in AllFields :
              IsFieldTracked(registry, heap[r], f)
                  <=> f \in ContractTrackedFields(registry, heap[r])

\* name is marked tracked and ignored under class-level audit, and the instance
\* has the fields name and "": the tracked set is {""}
C11_Witness ==
    /\ registry["User"] = StoredMeta({"name"}, {"name"}, TRUE)
    /\ heap["o1"].alloc
    /\ heap["o1"].props["name"] # Absent /\ heap["o1"].props[""] # Absent
    /\ GetTrackedFields(registry, heap["o1"]) = {""}
    /\ ~IsFieldTracked(registry, heap["o1"], "name")

\* What the write just made through a handle must have done to that handle's
\* tracker under the configuration the registry held when it was made
DecidedByRegistry ==
    \A h \in AllHandles, f \in AllFields :
        (last'.h = h /\ last'.prop = f) =>
            IF /\ TrackedByContract(registry, TargetOf(h), f)
               /\ f # ""
               /\ last'.err = NoError
               /\ last'.old # last'.value
            THEN /\ Cardinality(RecordsOf(h, f)') = 1
                 /\ \A i \in RecordsOf(h, f)' : Changes(h)'[i].newValue = last'.value
                 /\ \A g \in AllFields \ {f} : RecordsOf(h, g)' = RecordsOf(h, g)
            ELSE handles' = handles

\* C12: configuration is held per class and takes effect immediately: every
\* write through any handle of any instance of the class, the first one after a
\* configuration call and through a handle created before the call included,
\* is tracked or not as the class's configuration says at the time of the write.
C12_ImmediateEffect ==
    [][last'.op = "write" => DecidedByRegistry]_vars

\* Two instances behind two handles each recorded name going from "a" to "b";
\* then name was untracked, and the next write through the first handle, back
\* to "a", was not recorded
C12_Witness ==
    /\ handles["h1"].alloc /\ handles["h1"].target = "o1"
    /\ handles["h2"].alloc /\ handles["h2"].target = "o2"
    /\ Changes("h1") = <<ChangeRecordImpl("name", Str("a"), Str("b"))>>
    /\ Changes("h2") = <<ChangeRecordImpl("name", Str("a"), Str("b"))>>
    /\ last.op = "write" /\ last.h = "h1" /\ last.prop = "name"
    /\ last.old = Str("b") /\ last.value = Str("a") /\ last.err = NoError
    /\ ~TrackedByContract(registry, TargetOf("h1"), "name")
    /\ ~TrackedByContract(registry, TargetOf("h2"), "name")

\* C13: changes() returns a fresh snapshot: a changes() call leaves the tracker
\* as it is and returns its records; pushing to, popping from or replacing an
\* element of a returned array leaves every tracker as it is; a later write or
\* reset leaves a returned array as it is; and every record a tracker holds or
\* returns is frozen, an assignment to a frozen record changing nothing.
C13_FreshSnapshot ==
    /\ [](\A h \in AllHandles : \A i \in DOMAIN Changes(h) : Changes(h)[i].frozen)
    /\ [][ /\ last'.op = "changes" =>
                /\ handles' = handles
                /\ \A h \in AllHandles : snap'.h = h => snap'.items = Changes(h)
                /\ \A i \in DOMAIN snap'.items : snap'.items[i].frozen
           /\ last'.op \in {"push", "pop", "replace", "assign"} => handles' = handles
           /\ last'.op \in {"write", "resetAudit"} => snap' = snap
           /\ last'.op = "assign" =>
                \A i \in DOMAIN snap.items :
                    snap.items[i].frozen => snap'.items[i] = snap.items[i] ]_vars

\* The array returned while the tracker held {name, "a", "b"} still reads so
\* after a later write collapsed the tracker's record into {name, "a", "a"}
C13_Witness ==
    /\ snap.taken /\ snap.h = "h1"
    /\ snap.items = <<ChangeRecordImpl("name", Str("a"), Str("b"))>>
    /\ last.op = "write" /\ last.h = "h1" /\ last.err = NoError
    /\ Changes("h1") = <<ChangeRecordImpl("name", Str("a"), Str("a"))>>

\* C14: when the target refuses the assignment (frozen object, non-writable
\* field, new field on a sealed object) the write raises to the caller, every
\* object is as it was, and no tracker gains or updates a record, whether or
\* not the field is tracked.
C14_FailedAssignment ==
    [][\A h \in AllHandles, f \in AllFields :
          ( /\ last'.op = "write" /\ last'.h = h /\ last'.prop = f
            /\ AssignmentRefused(TargetOf(h), f) )
          => /\ last'.err = TypeErrorRaised
             /\ heap' = heap
             /\ handles' = handles]_vars

\* A write of "b" to the tracked new field name of a sealed object was refused:
\* the field is still absent and changes() is empty
C14_Witness ==
    /\ last.op = "write" /\ last.h = "h1" /\ last.prop = "name"
    /\ last.value = Str("b") /\ last.err = TypeErrorRaised
    /\ TargetOf("h1").sealed /\ ~TargetOf("h1").frozen
    /\ TargetOf("h1").props["name"] = Absent
    /\ TrackedByContract(registry, TargetOf("h1"), "name")
    /\ Changes("h1") = <<>>

\* C15: whatever the registry holds for the target's class (no record, a
\* corrupted record, a valid one) and whether or not the target has a
\* constructor, and whatever the tracker holds, a write through the handle to a
\* field the target accepts raises nothing and does to the objects exactly what
\* the plain assignment does; changes() and resetAudit() raise nothing.
C15_MachineryNeverInterferes ==
    /\ [](last.op \in {"changes", "resetAudit"} => last.err = NoError)
    /\ [][\A h \in AllHandles, f \in AllFields :
             ( /\ last'.op = "write" /\ last'.h = h /\ last'.prop = f
               /\ ~AssignmentRefused(TargetOf(h), f) )
             => /\ last'.err = NoError
                /\ heap' = [heap EXCEPT ![handles[h].target].props[f] = last'.value]]_vars

\* With a corrupted record on User, "b" was written to name of an instance
\* through the handle: the instance holds "b", nothing was raised or recorded
C15_Witness ==
    /\ registry["User"].shape = "corrupt"
    /\ last.op = "write" /\ last.h = "h1" /\ last.prop = "name"
    /\ last.old = Str("a") /\ last.value = Str("b") /\ last.err = NoError
    /\ TargetOf("h1").cls = "User"
    /\ TargetOf("h1").props["name"] = Str("b")
    /\ Changes("h1") = <<>>

\* C16: a method called through the handle runs against the target: when it
\* assigns a field, tracked or not, no tracker changes, and unless the target
\* refuses the assignment the target holds the value and a read through the
\* handle yields it; a method returning this returns the target, not the handle.
C16_MethodsRunOnTarget ==
    /\ [](last.op = "getThis" => last.value = Ref(handles[last.h].target))
    /\ [][\A h \in AllHandles, f \in AllFields :
             (last'.op = "method" /\ last'.h = h /\ last'.prop = f)
             => /\ handles' = handles
                /\ ~AssignmentRefused(TargetOf(h), f) =>
                      /\ last'.err = NoError
                      /\ heap'[handles[h].target].props[f] = last'.value
                      /\ ProxyGet(heap'[handles[h].target], h, f) = last'.value]_vars

\* A method called through the handle took the tracked field name from "a" to
\* "b": the target holds "b", reads through the handle yield "b", and changes()
\* is empty
C16_Witness ==
    /\ last.op = "method" /\ last.h = "h1" /\ last.prop = "name"
    /\ last.old = Str("a") /\ last.value = Str("b") /\ last.err = NoError
    /\ TrackedByContract(registry, TargetOf("h1"), "name")
    /\ TargetOf("h1").props["name"] = Str("b")
    /\ ProxyGet(TargetOf("h1"), "h1", "name") = Str("b")
    /\ Changes("h1") = <<>>

\* C17: in every state, reading changes or resetAudit through a handle yields
\* the accessor of that handle's own tracker: not the accessor of another
\* handle, and not the target's member of that name, whether the target was
\* created with one or one was written through a handle. Fails in the code
\* for a frozen target that holds such a member: the read raises TypeError.
C17_ReservedNamesShadow ==
    \A h \in AllHandles :
        handles[h].alloc =>
            /\ ProxyGet(TargetOf(h), h, "changes") = ChangesAccessor(h)
            /\ ProxyGet(TargetOf(h), h, "resetAudit") = ResetAuditAccessor(h)
            /\ \A k \in AllHandles \ {h} :
                  /\ ProxyGet(TargetOf(h), h, "changes") # ChangesAccessor(k)
                  /\ ProxyGet(TargetOf(h), h, "resetAudit") # ResetAuditAccessor(k)
            /\ \A n \in ReservedNames :
                  LET own == TargetOf(h).props[n]
                  IN  own # Absent => ProxyGet(TargetOf(h), h, n) \notin {own, Bind(own)}

\* The frozen target was created with a function resetAudit of its own:
\* reading resetAudit through h1 raises TypeError, and so did the call
\* wrapped.resetAudit() made last
C17_Witness ==
    /\ handles["h1"].alloc
    /\ TargetOf("h1").frozen
    /\ TargetOf("h1").props["resetAudit"] = Fn("own")
    /\ ProxyGet(TargetOf("h1"), "h1", "resetAudit") = ReadTypeError
    /\ last.op = "resetAudit" /\ last.h = "h1" /\ last.err = TypeErrorRaised

\* C18: each handle has its own tracker, empty when the handle is made; a
\* write or a resetAudit() through one handle leaves the tracker of every other
\* handle as it was, and after a successful write through one handle the target
\* of every handle wrapping the same object holds the value written.
C18_IndependentTrackers ==
    [][\A h \in AllHandles :
          last'.h = h =>
             /\ (last'.op = "Audit" /\ last'.err = NoError /\ ~handles[h].alloc)
                   => /\ Changes(h)' = <<>>
                      /\ \A k \in AllHandles \ {h} : handles'[k] = handles[k]
                      /\ heap' = heap
             /\ last'.op \in {"write", "resetAudit"}
                   => \A k \in AllHandles \ {h} : handles'[k] = handles[k]
             /\ (last'.op = "write" /\ last'.err = NoError)
                   => \A k \in AllHandles :
                         (handles[k].alloc /\ handles[k].target = handles[h].target)
                         => \E f \in AllFields :
                               /\ last'.prop = f
                               /\ heap'[handles[k].target].props[f] = last'.value]_vars

\* Two handles wrap o1; name went from nothing to "a" through h2 and then from
\* "a" to "b" through h1: each handle holds the record of its own write only
C18_Witness ==
    /\ handles["h1"].alloc /\ handles["h2"].alloc
    /\ handles["h1"].target = handles["h2"].target
    /\ last.op = "write" /\ last.h = "h1" /\ last.prop = "name"
    /\ Changes("h1") = <<ChangeRecordImpl("name", Str("a"), Str("b"))>>
    /\ Changes("h2") = <<ChangeRecordImpl("name", Undefined, Str("a"))>>
    /\ TargetOf("h2").props["name"] = Str("b")

\* C19: resetAudit() leaves the handle in use on the same target, and a
\* successful value-changing write to a tracked field that is the first such
\* write since the handle was made or last reset leaves exactly one record of
\* the field, whose oldValue is the value the field held just before that
\* write and whose newValue is the value written.
C19_TrackingResumesAfterReset ==
    [][\A h \in AllHandles, f \in AllFields :
          (last'.h = h /\ handles[h].alloc) =>
             /\ last'.op = "resetAudit"
                   => /\ handles'[h].alloc
                      /\ handles'[h].target = handles[h].target
             /\ ( /\ last'.op = "write" /\ last'.prop = f /\ last'.err = NoError
                  /\ f # ""
                  /\ TrackedByContract(registry, TargetOf(h), f)
                  /\ last'.old # last'.value
                  /\ hist[h][f].n = 0 )
                   => /\ Cardinality(RecordsOf(h, f)') = 1
                      /\ \A i \in RecordsOf(h, f)' :
                            Changes(h)'[i] = ChangeRecordImpl(f, last'.old, last'.value)]_vars

\* name was "a" when the handle was made; the array kept from changes() before
\* the reset holds the record a -> b, and the write of "a" after the reset left
\* the record b -> a: its oldValue is the value at the reset, not at creation
C19_Witness ==
    /\ last.op = "write" /\ last.h = "h1" /\ last.prop = "name"
    /\ last.old = Str("b") /\ last.value = Str("a")
    /\ hist["h1"]["name"].n = 1
    /\ snap.taken /\ snap.fresh
    /\ snap.items = <<ChangeRecordImpl("name", Str("a"), Str("b"))>>
    /\ Changes("h1") = <<ChangeRecordImpl("name", Str("b"), Str("a"))>>

\* Both calls, made twice, leave the registry as made once
TogglesIdempotent ==
    \A c \in RegistryClasses, f \in RegistryFields, b \in BOOLEAN :
        /\ SetFieldTrackingOp(SetFieldTrackingOp(registry, c, f, b), c, f, b)
              = SetFieldTrackingOp(registry, c, f, b)
        /\ SetFieldIgnoredOp(SetFieldIgnoredOp(registry, c, f, b), c, f, b)
              = SetFieldIgnoredOp(registry, c, f, b)

\* What class c sees of a call set(c, f, b) on the fields of F: membership of f
\* in the set the call is about is b, and nothing else of the configuration of
\* c differs
TogglesSet(F) ==
    \A c \in RegistryClasses, f \in F, b \in BOOLEAN :
        LET before == GetMetadata(registry, c)
            after  == GetMetadata(registry', c)
        IN  /\ SetFieldTracking(c, f, b)
                  => /\ (f \in after.trackedFields) = b
                     /\ after.trackedFields \ {f} = before.trackedFields \ {f}
                     /\ after.ignoredFields = before.ignoredFields
                     /\ after.classLevelAudit = before.classLevelAudit
            /\ SetFieldIgnored(c, f, b)
                  => /\ (f \in after.ignoredFields) = b
                     /\ after.ignoredFields \ {f} = before.ignoredFields \ {f}
                     /\ after.trackedFields = before.trackedFields
                     /\ after.classLevelAudit = before.classLevelAudit

\* C20 as stated: setFieldTracking and setFieldIgnored are idempotent, and after
\* set(f, b) the membership of f is b for every field name f, the rest of the
\* configuration unchanged. Fails for the empty name, which neither call stores.
C20_IdempotentToggles_AsStated ==
    /\ []TogglesIdempotent
    /\ [][TogglesSet(RegistryFields)]_vars

\* C20 amended: setFieldTracking and setFieldIgnored are idempotent, and after
\* set(f, b) with f a non-empty name the membership of f in the corresponding
\* set is b whatever it was, every other membership and classLevelAudit
\* unchanged; with the empty name the call changes nothing.
C20_IdempotentToggles ==
    /\ []TogglesIdempotent
    /\ [][TogglesSet(RegistryFields \ {""})]_vars
    /\ [][\A c \in RegistryClasses, b \in BOOLEAN :
             (SetFieldTracking(c, "", b) \/ SetFieldIgnored(c, "", b))
                => registry' = registry]_vars

\* Configuration calls were made and Derived holds a record of its own where
\* name is tracked and secret ignored, while Base holds another
C20_Witness ==
    /\ last.op = "configure"
    /\ registry["Derived"] = StoredMeta({"name"}, {"secret"}, FALSE)
    /\ registry["Base"] = StoredMeta({"secret"}, {}, TRUE)

\* C21: a configuration call whose class reference is not a function, or whose
\* field is the empty string or not a string, raises nothing and leaves every
\* stored record as it was, missing ones missing.
C21_InvalidConfigurationCall ==
    [][( /\ last'.op = "call"
         /\ \/ IsInvalidClassRef(last'.old)
            \/ /\ last'.prop \in {"setFieldTracking", "setFieldIgnored"}
               /\ IsInvalidFieldName(last'.value) )
       => /\ registry' = registry
          /\ last'.err = NoError]_vars

\* setFieldTracking(Base, 42, ...) was just called while Base holds a record
\* and Derived none: neither holds a field of that call
C21_Witness ==
    /\ last.op = "call" /\ last.prop = "setFieldTracking"
    /\ last.old = Fn("Base") /\ last.value = Num("42")
    /\ registry["Base"] = StoredMeta({"name"}, {}, TRUE)
    /\ registry["Derived"] = NoRecord

\* The record class c reads under the metadata key is stored and is not a
\* valid configuration
ReadsInvalidRecord(c) ==
    /\ c # NoClass
    /\ ReadMetaKey(registry, c).shape # "absent"
    /\ ~IsValidMetadata(ReadMetaKey(registry, c))

\* The registry once the invalid record of class c has been replaced by a
\* fresh default
Healed(c) == [registry EXCEPT ![c] = StoredMeta({}, {}, FALSE)]

\* A write through a handle and a configuration call on User raise nothing
\* when the class reads an invalid record, and go by the empty default
\* configuration: the write records nothing, the call gives what it gives on a
\* fresh default
DefaultInPlaceOfInvalid ==
    /\ \A h \in AllHandles :
          ( /\ last'.op = "write" /\ last'.h = h
            /\ handles[h].alloc /\ ReadsInvalidRecord(TargetOf(h).cls) )
          => /\ handles' = handles
             /\ ~AssignmentRefused(TargetOf(h), last'.prop) => last'.err = NoError
    /\ (last'.op = "configure" /\ ReadsInvalidRecord("User"))
          => /\ last'.err = NoError
             /\ \E f \in WrapFields, b \in BOOLEAN :
                   registry' \in {SetFieldTrackingOp(Healed("User"), "User", f, b),
                                  SetFieldIgnoredOp(Healed("User"), "User", f, b),
                                  SetClassLevelAuditOp(Healed("User"), "User", b)}

\* C22 as stated: whenever a stored record that is structurally invalid is
\* retrieved, by the query a write makes as well as by a configuration call,
\* the class is treated as having the default configuration, the stored
\* record is replaced by a valid one, and nothing is raised. Fails for the
\* query, which leaves the invalid record where it is.
C22_SelfHealing_AsStated ==
    [][/\ DefaultInPlaceOfInvalid
       /\ \A h \in AllHandles :
             ( /\ last'.op = "write" /\ last'.h = h
               /\ handles[h].alloc /\ ReadsInvalidRecord(TargetOf(h).cls) )
             => IsValidMetadata(registry'[TargetOf(h).cls])
       /\ (last'.op = "configure" /\ ReadsInvalidRecord("User"))
             => IsValidMetadata(registry'["User"])]_vars

\* C22 amended: an invalid stored record is never trusted and nothing is
\* raised: every query goes by the empty default configuration and leaves the
\* stored record as it is, and a configuration call with a valid class and
\* field stores a fresh default on that class and applies the call to it.
C22_SelfHealing ==
    /\ [](\A c \in AllClasses :
             ReadsInvalidRecord(c) => GetMetadata(registry, c) = DEFAULT_METADATA)
    /\ [][/\ DefaultInPlaceOfInvalid
          /\ last'.op = "write" => registry' = registry
          /\ (last'.op = "configure" /\ ReadsInvalidRecord("User"))
                => IsValidMetadata(registry'["User"])]_vars

\* A write of "a" over nothing went through while User holds a truthy value
\* that is no configuration: it succeeded, recorded nothing, and the value is
\* still stored on User
C22_Witness ==
    /\ last.op = "write" /\ last.h = "h1" /\ last.prop = "name"
    /\ last.old = Undefined /\ last.value = Str("a") /\ last.err = NoError
    /\ TargetOf("h1").cls = "User"
    /\ registry["User"].shape = "corrupt"
    /\ TargetOf("h1").props["name"] = Str("a")
    /\ Changes("h1") = <<>>

\* C23: trackChange called with a field that is the empty string or not a
\* string raises nothing and leaves the tracker's records as they were. Fails
\* in the code for a truthy value that is not a string, such as 42: the
\* guard !field || field.length === 0 lets it through and a record is stored.
C23_InvalidFieldIgnored ==
    [][(last'.op = "trackChange" /\ IsInvalidFieldName(last'.value))
       => /\ handles' = handles
          /\ last'.err = NoError]_vars

\* trackChange(42, "a", "b") was called on an empty tracker, which now holds a
\* record whose field is the number 42
C23_Witness ==
    /\ last.op = "trackChange" /\ last.value = Num("42")
    /\ Changes("h1") = <<ChangeRecordImpl(Num("42"), Str("a"), Str("b"))>>

\* Field f of obj is ignored by the record of its class or of the class above
IgnoredAlongChain(obj, f) ==
    \/ f \in ConfigOf(registry, obj.cls).ignoredFields
    \/ Parent(obj.cls) # NoClass /\ f \in ConfigOf(registry, Parent(obj.cls)).ignoredFields

\* C24: on an instance of a subclass, a field that is not ignored is tracked
\* when the base class has class-level audit enabled and the field is an own
\* enumerable field, and when the base class marks the field tracked. Fails in
\* the code once the subclass holds a record of its own, which hides the
\* record of the base class.
C24_Inheritance ==
    \A h \in AllHandles :
        (handles[h].alloc /\ Parent(TargetOf(h).cls) # NoClass) =>
            \A f \in IgnoreFields :
                LET obj  == TargetOf(h)
                    base == ConfigOf(registry, Parent(obj.cls))
                IN  ( /\ ~IgnoredAlongChain(obj, f)
                      /\ \/ base.classLevelAudit /\ obj.props[f] # Absent
                         \/ f \in base.trackedFields )
                    => IsFieldTracked(registry, obj, f)

\* Derived holds a record of its own marking secret, Base has class-level
\* audit, and the write of "b" over "a" to name on an instance of Derived left
\* no record
C24_Witness ==
    /\ last.op = "write" /\ last.h = "h1" /\ last.prop = "name"
    /\ last.old = Str("a") /\ last.value = Str("b") /\ last.err = NoError
    /\ TargetOf("h1").cls = "Derived"
    /\ registry["Base"] = StoredMeta({}, {}, TRUE)
    /\ registry["Derived"] = StoredMeta({"secret"}, {}, FALSE)
    /\ Changes("h1") = <<>>

\* Class k is class c or extends it, directly or not
RECURSIVE Descends(_, _)
Descends(k, c) ==
    IF k = NoClass THEN FALSE
    ELSE IF k = c THEN TRUE
    ELSE Descends(Parent(k), c)

\* C25: a configuration call on a class changes the stored record of no other
\* class, and the configuration of every class that does not extend it reads
\* the same before and after. Fails in the code for a subclass without a
\* record of its own: the call is applied to the record of its base class.
C25_OneRecordPerClass ==
    [][\A c \in RegistryClasses :
          (last'.op = "call" /\ last'.old = Fn(c))
          => \A k \in AllClasses :
                /\ k # c => registry'[k] = registry[k]
                /\ ~Descends(k, c) => GetMetadata(registry', k) = GetMetadata(registry, k)]_vars

\* setFieldIgnored(Derived, "name", true) was just called: Derived holds no
\* record and the record of Base, which marks name tracked, now ignores name
C25_Witness ==
    /\ last.op = "call" /\ last.prop = "setFieldIgnored"
    /\ last.old = Fn("Derived") /\ last.value = Str("name")
    /\ registry["Derived"] = NoRecord
    /\ registry["Base"] = StoredMeta({"name"}, {"name"}, FALSE)

\* set with f put in (b) or taken out (not b)
Toggled(set, f, b) == IF b THEN set \cup {f} ELSE set \ {f}

\* The configuration of Base after the call last' describes, applied in its
\* turn to the configuration before
AppliedInTurn(before) ==
    CASE last'.prop = "setFieldTracking" ->
            [before EXCEPT !.trackedFields = Toggled(@, last'.value.v, last'.flag)]
      [] last'.prop = "setFieldIgnored" ->
            [before EXCEPT !.ignoredFields = Toggled(@, last'.value.v, last'.flag)]
      [] last'.prop = "setClassLevelAudit" ->
            [before EXCEPT !.classLevelAudit = last'.flag]

\* C26: whatever the order in which the calls of concurrent callers on one
\* class run, its creating calls included, every stored record is a valid
\* configuration and each call leaves the configuration that applying it in
\* its turn to the one before gives, so the final membership of every field
\* is that of the calls applied one after the other in the order they ran.
C26_ConcurrentConfiguration ==
    /\ [](\A c \in AllClasses : registry[c].shape = "absent" \/ IsValidMetadata(registry[c]))
    /\ [][last'.op = "call"
          => /\ IsValidMetadata(registry'["Base"])
             /\ registry'["Base"] = AppliedInTurn(GetMetadata(registry, "Base"))]_vars

\* Several calls have run, the last of them setFieldTracking(Base, "secret",
\* true): the record they created holds secret as tracked and as ignored and
\* name as neither
C26_Witness ==
    /\ last.op = "call" /\ last.prop = "setFieldTracking"
    /\ last.value = Str("secret") /\ last.flag
    /\ registry["Base"] = StoredMeta({"secret"}, {"secret"}, FALSE)

\* C27: logging is disabled until enabled; whatever the logger's state
\* (disabled, enabled at any level, console methods throwing) no operation
\* raises what the console raised, and a write, a trackChange and a
\* setFieldTracking do to the registry, the target and the trackers what
\* they do without any logger, and leave the logger as it was.
C27_SinkNeverInterferes ==
    /\ [](last.op = "init" => logger.config = DEFAULT_CONFIG /\ ~logger.config.enabled)
    /\ [](last.err # SinkErrorRaised)
    /\ [][/\ (last'.op = "write" /\ handles[last'.h].alloc)
                => ProxyWrite(last'.h, last'.prop, last'.value)
          /\ last'.op = "trackChange"
                => /\ handles' = [handles EXCEPT ![last'.h].changes =
                                     TrackChangeArgs(@, last'.value, Str("a"), Str("b"))]
                   /\ UNCHANGED <<registry, heap, logger>>
          /\ last'.op = "call"
                => /\ registry' = SetFieldTrackingArgs(registry, last'.old, last'.value,
                                                       last'.flag)
                   /\ UNCHANGED <<heap, handles, logger>>
          /\ last'.op \in {"enableAuditLogging", "disableAuditLogging", "console"}
                => UNCHANGED <<registry, heap, handles>>]_vars

\* Logging is enabled at DEBUG with console methods that throw, User holds a
\* value that is no configuration, and the write of "b" over "a" went through
\* all the same: no error, the target holds "b", nothing recorded
C27_Witness ==
    /\ logger.config = [enabled |-> TRUE, level |-> "DEBUG"]
    /\ logger.console = "throws"
    /\ registry["User"].shape = "corrupt"
    /\ last.op = "write" /\ last.h = "h1" /\ last.err = NoError
    /\ last.old = Str("a") /\ last.value = Str("b")
    /\ TargetOf("h1").props["name"] = Str("b")
    /\ Changes("h1") = <<>>

\* C28: a successful value-changing write that takes a tracked field back to
\* the oldValue of its record keeps the record: changes() holds exactly one
\* record of the field afterwards, with oldValue and newValue both that value.
C28_ReturnKeepsRecord ==
    [][\A h \in AllHandles, f \in AllFields \ {""} :
          ( /\ last'.op = "write" /\ last'.h = h /\ last'.prop = f
            /\ last'.err = NoError /\ last'.old # last'.value
            /\ TrackedByContract(registry, TargetOf(h), f)
            /\ \E i \in RecordsOf(h, f) : Changes(h)[i].oldValue = last'.value )
          => /\ Cardinality(RecordsOf(h, f)') = 1
             /\ \A i \in RecordsOf(h, f)' :
                   Changes(h)'[i] = ChangeRecordImpl(f, last'.value, last'.value)]_vars

\* name went from "a" to "b" and back to "a" with no reset in between: the one
\* record of name has oldValue "a" and newValue "a"
C28_Witness ==
    /\ last.op = "write" /\ last.h = "h1" /\ last.prop = "name"
    /\ last.old = Str("b") /\ last.value = Str("a") /\ last.err = NoError
    /\ hist["h1"]["name"] = [n |-> 2, first |-> Str("a"), last |-> Str("a")]
    /\ Changes("h1") = <<ChangeRecordImpl("name", Str("a"), Str("a"))>>

\* C29: a write through the handle to an accessor whose setter assigns field
\* f is, for f, a write through the handle: when f is tracked, the assignment
\* succeeds and the value changes, changes() holds exactly one record of f
\* afterwards, whose newValue is the value the setter assigned (the string
\* written, in lower case), and the target holds it. A value the setter cannot
\* lower-case raises TypeError and changes neither target nor tracker.
C29_SetterRunsOnWrapper ==
    /\ [][\A h \in AllHandles, f \in AllFields \ {""} :
             ( /\ last'.op = "setter" /\ last'.h = h /\ last'.prop = f
               /\ last'.value.type = "String"
               /\ TrackedByContract(registry, TargetOf(h), f)
               /\ ~AssignmentRefused(TargetOf(h), f)
               /\ last'.old # ToLowerCase(last'.value) )
             => /\ last'.err = NoError
                /\ heap'[handles[h].target].props[f] = ToLowerCase(last'.value)
                /\ Cardinality(RecordsOf(h, f)') = 1
                /\ \A i \in RecordsOf(h, f)' :
                      Changes(h)'[i].newValue = ToLowerCase(last'.value)
                /\ RecordsOf(h, f) = {} =>
                      \A i \in RecordsOf(h, f)' : Changes(h)'[i].oldValue = last'.old]_vars
    /\ [][(last'.op = "setter" /\ last'.value.type # "String")
             => /\ last'.err = TypeErrorRaised
                /\ heap' = heap /\ handles' = handles]_vars

\* The accessor was written with "NEW VALUE" through the handle and its setter
\* took the tracked field name from "a" to "new value": changes() holds the
\* record a -> new value
C29_Witness ==
    /\ last.op = "setter" /\ last.h = "h1" /\ last.prop = "name"
    /\ last.old = Str("a") /\ last.value = Str("NEW VALUE") /\ last.err = NoError
    /\ TrackedByContract(registry, TargetOf("h1"), "name")
    /\ TargetOf("h1").props["name"] = Str("new value")
    /\ Changes("h1") = <<ChangeRecordImpl("name", Str("a"), Str("new value"))>>

\* C30: a write through the handle whose key is a symbol changes no tracker,
\* whatever the configuration of the class, and unless the target refuses the
\* assignment it raises nothing and the target holds the value.
C30_SymbolKeysNeverRecorded ==
    [][\A h \in AllHandles :
          (last'.op = "write" /\ last'.h = h /\ KeyType(last'.prop) = "symbol")
          => /\ handles' = handles
             /\ ~AssignmentRefused(TargetOf(h), last'.prop)
                   => /\ last'.err = NoError
                      /\ heap'[handles[h].target].props[last'.prop] = last'.value]_vars

\* User has class-level audit and nothing ignored, the target holds the symbol
\* key as an own property, and the write of "b" over "a" to it left no record
C30_Witness ==
    /\ last.op = "write" /\ last.h = "h1" /\ last.prop = SymbolKey
    /\ last.old = Str("a") /\ last.value = Str("b") /\ last.err = NoError
    /\ registry["User"].shape = "meta" /\ registry["User"].classLevelAudit
    /\ registry["User"].ignoredFields = {}
    /\ TargetOf("h1").props[SymbolKey] = Str("b")
    /\ Changes("h1") = <<>>

\* The field names of a sequence of records, in its order
FieldsOf(records) == [i \in 1..Len(records) |-> records[i].field]

\* C31: changes() lists the records in the order of each field's first
\* recorded change since the handle was created or last reset: a step either
\* leaves the sequence of field names of changes() as it is (a collapsing write
\* keeps the record's position), or is a write through the handle to a field
\* without a record, whose name it appends at the end, or is a reset of the
\* handle, which empties the sequence.
C31_FirstChangeOrder ==
    [][\A h \in AllHandles :
          \/ FieldsOf(Changes(h)') = FieldsOf(Changes(h))
          \/ /\ last'.op = "write" /\ last'.h = h
             /\ RecordsOf(h, last'.prop) = {}
             /\ FieldsOf(Changes(h)') = Append(FieldsOf(Changes(h)), last'.prop)
          \/ /\ last'.op = "resetAudit" /\ last'.h = h
             /\ Changes(h)' = <<>>]_vars

\* changes() holds two records and the write made last collapsed into the
\* first of them: the field changed first is still listed first
C31_Witness ==
    /\ Len(Changes("h1")) = 2
    /\ last.op = "write" /\ last.h = "h1" /\ last.err = NoError
    /\ last.prop = Changes("h1")[1].field
    /\ last.old # last.value
    /\ Changes("h1")[1].newValue = last.value
    /\ Changes("h1")[1].oldValue # last.old

\* C32: hasChanges() returns true exactly when getChanges() returns a
\* non-empty sequence: the answer a call gave is true exactly when the tracker
\* holds a record, a tracker just reset answers false, and a tracker that
\* was just given a change for a field name answers true.
C32_HasChangesIffNonEmpty ==
    /\ \A h \in AllHandles : HasChanges(handles[h].changes) <=> (Changes(h) # <<>>)
    /\ last.op = "hasChanges" =>
          (last.value = Bool("true")) <=> (Changes(last.h) # <<>>)
    /\ last.op = "hasChanges" => last.value \in {Bool("true"), Bool("false")}
    /\ last.op = "reset" => ~HasChanges(handles[last.h].changes)
    /\ (last.op = "trackChange" /\ ~IsInvalidFieldName(last.value)) =>
          HasChanges(handles[last.h].changes)

\* hasChanges() was called on a tracker that holds one record and answered true
C32_Witness ==
    /\ last.op = "hasChanges" /\ last.h = "h1"
    /\ last.value = Bool("true")
    /\ Len(Changes("h1")) = 1

\* The class of the target of h has class-level audit and neither marks f
\* tracked nor ignores it
OnlyClassLevel(h, f) ==
    LET m == ConfigOf(registry, TargetOf(h).cls) IN
    /\ m.classLevelAudit
    /\ f \notin m.trackedFields
    /\ f \notin m.ignoredFields

\* C33: under class-level audit, a write through the handle to a field that
\* is not explicitly tracked and not yet an own field of the target puts the
\* value on the target and changes no tracker; a later value-changing write
\* to the field, now an own field without a record, makes the one record of a
\* non-empty field name, whose oldValue is the value the field held, the one
\* written before, and never the absent value.
C33_LateFieldFirstWrite ==
    [][\A h \in AllHandles, f \in AllFields :
          ( /\ last'.op = "write" /\ last'.h = h /\ last'.prop = f
            /\ KeyType(f) = "string"
            /\ OnlyClassLevel(h, f)
            /\ ~AssignmentRefused(TargetOf(h), f) )
          => /\ last'.err = NoError
             /\ heap'[handles[h].target].props[f] = last'.value
             /\ TargetOf(h).props[f] = Absent => handles' = handles
             /\ ( /\ TargetOf(h).props[f] # Absent
                  /\ RecordsOf(h, f) = {}
                  /\ last'.old # last'.value
                  /\ f # "" )
                => /\ last'.old = TargetOf(h).props[f]
                   /\ last'.old # Undefined
                   /\ Cardinality(RecordsOf(h, f)') = 1
                   /\ \A i \in RecordsOf(h, f)' :
                         Changes(h)'[i] = ChangeRecordImpl(f, last'.old, last'.value)
             /\ \A i \in RecordsOf(h, f)' : Changes(h)'[i].oldValue # Undefined]_vars

\* The target was created without name; under class-level audit a first write
\* made name "a" and left no record, and the second write, of "b", made the
\* record a -> b
C33_Witness ==
    /\ last.op = "write" /\ last.h = "h1" /\ last.prop = "name"
    /\ last.old = Str("a") /\ last.value = Str("b") /\ last.err = NoError
    /\ OnlyClassLevel("h1", "name")
    /\ TargetOf("h1").props["name"] = Str("b")
    /\ Changes("h1") = <<ChangeRecordImpl("name", Str("a"), Str("b"))>>

\* C34: when every write to the target goes through its one handle and the
\* configuration is fixed before the target exists, every record in
\* changes() has as newValue the value the target holds for the record's
\* field.
C34_NewValueIsCurrentValue ==
    \A h \in AllHandles : \A i \in DOMAIN Changes(h) :
        /\ Changes(h)[i].field \in AllFields
        /\ Changes(h)[i].newValue = TargetOf(h).props[Changes(h)[i].field]

\* name went from "a" to "b" and back to "a" through the handle, so that its
\* record is a -> a and the target holds "a", while secret, which has no
\* record, was written as well
C34_Witness ==
    /\ last.op = "write" /\ last.h = "h1" /\ last.prop = "name"
    /\ last.old = Str("b") /\ last.value = Str("a") /\ last.err = NoError
    /\ Changes("h1") = <<ChangeRecordImpl("name", Str("a"), Str("a"))>>
    /\ TargetOf("h1").props["name"] = Str("a")
    /\ TargetOf("h1").props["secret"] = Str("b")

\* The calls that ask the registry: the two queries and a write through a
\* handle, whose set trap calls isFieldTracked
RegistryQueries == {"getTrackedFields", "isFieldTracked", "write"}

\* C35: the registry queries are pure reads: a step that is a query leaves
\* what every constructor stores as it is, only a configuration call changes
\* it, and for a target whose class reads no record the queries answer from
\* the empty default: no tracked field.
C35_QueriesArePureReads ==
    [][/\ last'.op \in RegistryQueries => registry' = registry
       /\ registry' # registry => last'.op = "configure"
       /\ \A r \in AllRefs :
             ( /\ last'.op \in {"getTrackedFields", "isFieldTracked"}
               /\ last'.old = Ref(r)
               /\ heap[r].cls # NoClass
               /\ ReadMetaKey(registry, heap[r].cls).shape = "absent" )
             => /\ registry'[heap[r].cls] = NoRecord
                /\ last'.op = "isFieldTracked" => last'.value = Bool("false")
                /\ last'.op = "getTrackedFields" => last'.had = 0]_vars

\* getTrackedFields was asked about an instance of User that holds name after
\* a write through the handle, answered the empty set, and User still stores
\* nothing
C35_Witness ==
    /\ last.op = "getTrackedFields" /\ last.old = Ref("o1") /\ last.had = 0
    /\ heap["o1"].cls = "User"
    /\ handles["h1"].alloc
    /\ heap["o1"].props["name"] = Str("b")
    /\ registry["User"] = NoRecord

\* The field names that have a record in changes() of h
RecordedFields(h) == {Changes(h)[i].field : i \in DOMAIN Changes(h)}

\* C36: only resetAudit() removes records: a step that is not a reset of the
\* handle keeps every field name changes() holds; a configuration call
\* changes no tracker; and a write through the handle to a field that has a
\* record and is no longer tracked reaches the target and leaves changes()
\* as it was, the record keeping its newValue.
C36_OnlyResetRemoves ==
    [][\A h \in AllHandles :
          /\ ~(last'.op = "resetAudit" /\ last'.h = h)
                => RecordedFields(h) \subseteq RecordedFields(h)'
          /\ last'.op = "configure" => Changes(h)' = Changes(h)
          /\ ( /\ last'.op = "write" /\ last'.h = h
               /\ RecordsOf(h, last'.prop) # {}
               /\ ~TrackedByContract(registry, TargetOf(h), last'.prop)
               /\ ~AssignmentRefused(TargetOf(h), last'.prop) )
             => /\ Changes(h)' = Changes(h)
                /\ heap'[handles[h].target].props[last'.prop] = last'.value
                /\ last'.err = NoError]_vars

\* secret went from "a" to "b" while tracked and was ignored afterwards; the
\* write that took it back to "a" reached the target and the record is still
\* a -> b
C36_Witness ==
    /\ last.op = "write" /\ last.h = "h1" /\ last.prop = "secret"
    /\ last.old = Str("b") /\ last.value = Str("a") /\ last.err = NoError
    /\ "secret" \in ConfigOf(registry, "User").ignoredFields
    /\ TargetOf("h1").props["secret"] = Str("a")
    /\ Changes("h1") = <<ChangeRecordImpl("secret", Str("a"), Str("b"))>>

\* The step is a configuration call on class c with a usable field name
ConfiguresClass(c) ==
    /\ last'.op = "call"
    /\ last'.old = Fn(c)
    /\ last'.prop = "setClassLevelAudit" \/ ~IsInvalidFieldName(last'.value)

\* C37: the order of configuration decides whether Derived shares the record
\* of Base. A call on Derived made while Base stores a record and Derived
\* none is applied to the record of Base, and Derived still stores none; a
\* call on Derived made while neither stores a record gives Derived a record
\* of its own and Base none; and once Derived stores a record, a call on Base
\* leaves that record and the tracked fields of every instance of Derived as
\* they were.
C37_OrderOfConfiguration ==
    [][/\ ( /\ ConfiguresClass("Derived")
            /\ IsValidMetadata(registry["Base"])
            /\ registry["Derived"] = NoRecord )
          => /\ registry'["Derived"] = NoRecord
             /\ registry'["Base"] = AppliedInTurn(registry["Base"])
             /\ GetMetadata(registry', "Derived") = registry'["Base"]
       /\ ( /\ ConfiguresClass("Derived")
            /\ registry["Base"] = NoRecord
            /\ registry["Derived"] = NoRecord )
          => /\ registry'["Derived"] = AppliedInTurn(DEFAULT_METADATA)
             /\ registry'["Base"] = NoRecord
       /\ ( /\ ConfiguresClass("Base")
            /\ IsValidMetadata(registry["Derived"]) )
          => /\ registry'["Derived"] = registry["Derived"]
             /\ \A r \in AllRefs :
                   (heap[r].alloc /\ heap[r].cls = "Derived")
                   => GetTrackedFields(registry', heap[r]) =
                         GetTrackedFields(registry, heap[r])]_vars

\* Derived was configured first and stores a record of its own marking
\* secret; @Auditable() was applied to Base just now, and the instance of
\* Derived behind the handle, which holds name, still has secret as its only
\* tracked field
C37_Witness ==
    /\ last.op = "call" /\ last.prop = "setClassLevelAudit" /\ last.old = Fn("Base")
    /\ registry["Derived"] = StoredMeta({"secret"}, {}, FALSE)
    /\ registry["Base"] = StoredMeta({}, {}, TRUE)
    /\ handles["h1"].alloc
    /\ TargetOf("h1").cls = "Derived"
    /\ TargetOf("h1").props["name"] # Absent
    /\ GetTrackedFields(registry, TargetOf("h1")) = {"secret"}

\* The two targets hold the same value in every field that is not ignored
AgreeOutsideIgnored ==
    \A f \in IgnoreFields : ~IsIgnored(f) => heap["o1"].props[f] = heap["o2"].props[f]

\* The step takes a field out of the ignored fields of User
Unignores == \E f \in IgnoreFields : IsIgnored(f) /\ ~IsIgnored(f)'

====
